---- MODULE Spec2Model ----
(***************************************************************************)
(* A model of gomusic: the Bubble Tea Update loop of main.go, the playback *)
(* goroutines of the player file, the album resolver of ytmusic_search.go  *)
(* and the lyric functions of lyrics.go / main.go.                         *)
(*                                                                         *)
(* Strings are tuples of one-character strings, so that len, substring     *)
(* containment, lower-casing and suffix trimming are computed and not      *)
(* assumed.  Pointers (to a beep.Ctrl, an exec.Cmd) are the number of the  *)
(* playback goroutine that created them, 0 for nil.                        *)
(***************************************************************************)
EXTENDS Integers, Sequences, FiniteSets, TLC

(***************************************************************************)
(* Bounds of the model.                                                    *)
(***************************************************************************)
\* playback goroutines (go m.runInternalPlayback) started in one run
MaxSessions == 3

(***************************************************************************)
(* Strings.                                                                *)
(***************************************************************************)
\* the string made of n copies of the character c
Rep(c, n) == [i \in 1..n |-> c]

\* the minimum length of a playable track identifier
MinIDLen == 10

\* the identifier check without its length test
InvalidTrackID_EmptyOnly(id) == id = <<>>

\* item.id == "" || len(item.id) < 10
InvalidTrackID(id) == id = <<>> \/ Len(id) < MinIDLen

(***************************************************************************)
(* package strings, on tuples of characters.                               *)
(***************************************************************************)
UpperChars ==
    <<"A", "B", "C", "D", "E", "F", "G", "H", "I", "J", "K", "L", "M",
      "N", "O", "P", "Q", "R", "S", "T", "U", "V", "W", "X", "Y", "Z">>
LowerChars ==
    <<"a", "b", "c", "d", "e", "f", "g", "h", "i", "j", "k", "l", "m",
      "n", "o", "p", "q", "r", "s", "t", "u", "v", "w", "x", "y", "z">>

\* strings.ToLower, on the ASCII letters
ToLower(str) ==
    [i \in 1..Len(str) |->
        IF \E k \in 1..Len(UpperChars) : UpperChars[k] = str[i]
        THEN LowerChars[CHOOSE k \in 1..Len(UpperChars) : UpperChars[k] = str[i]]
        ELSE str[i]]

\* strings.Contains(str, sub): the empty string is contained in every string
Contains(str, sub) ==
    \E i \in 0..(Len(str) - Len(sub)) : SubSeq(str, i + 1, i + Len(sub)) = sub

\* strings.HasSuffix, strings.TrimSuffix, strings.HasPrefix, strings.TrimPrefix
HasSuffix(str, suf) ==
    Len(suf) <= Len(str) /\ SubSeq(str, Len(str) - Len(suf) + 1, Len(str)) = suf
TrimSuffix(str, suf) ==
    IF HasSuffix(str, suf) THEN SubSeq(str, 1, Len(str) - Len(suf)) ELSE str
HasPrefix(str, pre) ==
    Len(pre) <= Len(str) /\ SubSeq(str, 1, Len(pre)) = pre
TrimPrefix(str, pre) ==
    IF HasPrefix(str, pre) THEN SubSeq(str, Len(pre) + 1, Len(str)) ELSE str

\* strings.TrimSpace; the space is the only white space of the model
TrimSpace(str) ==
    LET inked == { i \in 1..Len(str) : str[i] # " " } IN
    IF inked = {} THEN <<>>
    ELSE SubSeq(str, CHOOSE i \in inked : \A j \in inked : i <= j,
                     CHOOSE i \in inked : \A j \in inked : j <= i)

\* strings.Join
RECURSIVE Join(_, _)
Join(strs, sep) ==
    IF strs = <<>> THEN <<>>
    ELSE IF Len(strs) = 1 THEN strs[1]
    ELSE strs[1] \o sep \o Join(Tail(strs), sep)

(***************************************************************************)
(* songItem values.  thumb is TRUE for a non-empty thumbnail URL.          *)
(***************************************************************************)
SongItem(id, title, isAlbum) ==
    [id |-> id, title |-> title, author |-> "artist", isAlbum |-> isAlbum]

SongA == SongItem(Rep("a", 11), "A", FALSE)
SongB == SongItem(Rep("b", 10), "B", FALSE)
AlbumX == SongItem(Rep("x", 12), "X", TRUE)
\* items no search can return: a track whose identifier is too short or empty
SongShort == SongItem(Rep("s", 9), "S", FALSE)
SongEmpty == SongItem(<<>>, "E", FALSE)

NoItem == SongItem(<<>>, "", FALSE)

\* what searchYTMusic can put in a searchResultsMsg: convertYTMusicResults
\* drops every track whose VideoID is shorter than 10
SearchPayloads == { <<SongA, AlbumX>> }
\* what searchAlbumWithTracks can put in an albumTracksFetchedMsg
AlbumPayloads == { <<SongB>> }
\* payloads a message of these types can carry but no search produces
InvalidSearchPayloads == { <<SongShort, SongEmpty, AlbumX>> }
InvalidAlbumPayloads == { <<SongShort, SongEmpty>> }

(***************************************************************************)
(* State of the program (model, playbackState) and of its goroutines.      *)
(* m.selected, m.currentAlbum and the cursors of the two lists are left    *)
(* out: the item under the cursor is any item of the list.                 *)
(***************************************************************************)
VARIABLES
    state,          \* m.state
    quitting,       \* m.quitting
    list,           \* the items of m.list
    albumTracks,    \* m.albumTracks
    albumListValid, \* m.albumTrackList was built (its Width() > 0)
    playback,       \* the playbackState m.playback points to
    cmdInFlight,    \* the tea.Cmd Update returned that has not answered yet
    sess,           \* the runInternalPlayback goroutines
    nsess,          \* how many of them were started
    lyr,            \* the lyric goroutine of each playback goroutine
    dl,             \* the runDownloadConvert / runDownloadAlbum goroutine
    payloads,       \* the payloads search messages are drawn from
    rejected,       \* the views in which key p met a track with an invalid identifier
    resolver,       \* one run of searchAlbumWithTracks against the catalog
    seek,           \* one decoded stream and its cursor (seekForward, seekBackward)
    synced,         \* a lyric track, a playback position and the lyric index
    lrc             \* one call of parseLRC

uiVars == <<state, quitting, list, albumTracks, albumListValid, playback,
            cmdInFlight, sess, nsess, lyr, dl, payloads, rejected>>

\* the state of the functions that are checked on their own
pureVars == <<resolver, seek, synced, lrc>>

vars == <<uiVars, pureVars>>

\* a function that is not under check
Off == [pc |-> "off"]

Sessions == 1..MaxSessions

NoLyrics == [kind |-> "nil", of |-> 0]

InitPlayback ==
    [playingSong |-> <<>>, isPaused |-> FALSE, player |-> 0, cmd |-> 0,
     lyrics |-> NoLyrics, currentLyricIndex |-> -1,
     albumCover |-> "", coverPath |-> "", kittyImage |-> "",
     resizedCoverPath |-> ""]

\* a goroutine that was not started: proc is the ffmpeg process, paused is
\* ctrl.Paused, cover is the goroutine that fetches the album cover, tick is
\* the tea.Tick that the playMsg of the goroutine armed
IdleSession ==
    [pc |-> "idle", item |-> NoItem, proc |-> "none", paused |-> FALSE,
     cover |-> "none", tick |-> "none"]

InitUI(p) ==
    /\ state = "stateInput"
    /\ quitting = FALSE
    /\ list = <<>>
    /\ albumTracks = <<>>
    /\ albumListValid = FALSE
    /\ playback = InitPlayback
    /\ cmdInFlight = "none"
    /\ sess = [s \in Sessions |-> IdleSession]
    /\ nsess = 0
    /\ lyr = [s \in Sessions |-> "none"]
    /\ dl = "none"
    /\ payloads = p
    /\ rejected = {}

Init ==
    /\ InitUI([search |-> SearchPayloads, album |-> AlbumPayloads])
    /\ resolver = Off /\ seek = Off /\ synced = Off /\ lrc = Off

\* the program runs: after tea.Quit the process, and every goroutine, ends
Alive == ~quitting /\ state # "stateFinished"

(***************************************************************************)
(* player: stopPlayback.                                                   *)
(***************************************************************************)
\* the goroutine records after stopPlayback: cmd.Process.Kill(), ctrl.Paused = true
StoppedSessions ==
    [s \in Sessions |->
        [sess[s] EXCEPT
            !.proc = IF playback.cmd = s /\ @ = "running" THEN "ended" ELSE @,
            !.paused = IF playback.player = s THEN TRUE ELSE @]]

\* a stop that also flips the paused flag
StoppedPlayback_FlipsPause ==
    [playback EXCEPT !.cmd = 0, !.player = 0, !.coverPath = "",
                     !.resizedCoverPath = "", !.playingSong = <<>>,
                     !.albumCover = "", !.kittyImage = "", !.isPaused = ~@]

\* the playback state after stopPlayback
StoppedPlayback ==
    [playback EXCEPT !.cmd = 0, !.player = 0, !.coverPath = "",
                     !.resizedCoverPath = "", !.playingSong = <<>>,
                     !.albumCover = "", !.kittyImage = ""]

(***************************************************************************)
(* Update: key presses.  Every handler runs to its return on the event     *)
(* loop.                                                                   *)
(***************************************************************************)
\* tea.Quit: program.Run returns, main returns, and the process is gone with
\* its goroutines and its playbackState
ProcessExits ==
    /\ playback' = InitPlayback
    /\ sess' = [s \in Sessions |-> IdleSession]
    /\ nsess' = 0
    /\ lyr' = [s \in Sessions |-> "none"]
    /\ dl' = "none"
    /\ cmdInFlight' = "none"

\* case "ctrl+c"
KeyCtrlC ==
    /\ Alive
    /\ quitting' = TRUE
    /\ ProcessExits
    /\ UNCHANGED <<state, list, albumTracks, albumListValid, payloads, rejected>>
    /\ UNCHANGED pureVars

\* a q that quits from every state
KeyQ_AlwaysQuits ==
    /\ Alive
    /\ quitting' = TRUE
    /\ ProcessExits
    /\ UNCHANGED <<state, list, albumTracks, albumListValid, payloads, rejected>>
    /\ UNCHANGED pureVars

\* case "q"
KeyQ ==
    /\ Alive
    /\ IF state = "statePlaying"
       THEN /\ playback' = StoppedPlayback
            /\ sess' = StoppedSessions
            /\ state' = "stateViewingAlbumTracks"
            /\ UNCHANGED <<quitting, cmdInFlight, nsess, lyr, dl>>
       ELSE IF state = "stateViewingAlbumTracks"
            THEN /\ state' = "stateSelecting"
                 /\ UNCHANGED <<quitting, playback, sess, cmdInFlight, nsess, lyr, dl>>
            ELSE IF state = "stateSelecting"
                 THEN /\ state' = "stateInput"
                      /\ UNCHANGED <<quitting, playback, sess, cmdInFlight, nsess,
                                     lyr, dl>>
                 ELSE /\ quitting' = TRUE
                      /\ ProcessExits
                      /\ UNCHANGED state
    /\ UNCHANGED <<list, albumTracks, albumListValid, payloads, rejected>>
    /\ UNCHANGED pureVars

\* the tail of Update, reached by a message no case returned from: in the
\* album view an album list that was never built sends the UI back to the
\* search list (or is rebuilt from m.albumTracks)
UpdateTail(st) ==
    IF st = "stateViewingAlbumTracks" /\ ~albumListValid
    THEN IF Len(albumTracks) > 0
         THEN state' = st /\ albumListValid' = TRUE
         ELSE state' = "stateSelecting" /\ UNCHANGED albumListValid
    ELSE state' = st /\ UNCHANGED albumListValid

\* a key no case handles in the current state (also tea.WindowSizeMsg)
KeyOther ==
    /\ Alive
    /\ UpdateTail(state)
    /\ UNCHANGED <<quitting, list, albumTracks, playback, cmdInFlight,
                   sess, nsess, lyr, dl, payloads, rejected>>
    /\ UNCHANGED pureVars

\* case "esc"
KeyEsc ==
    /\ Alive
    /\ IF state = "stateViewingAlbumTracks"
       THEN state' = "stateSelecting" /\ UNCHANGED albumListValid
       ELSE IF state = "stateSelecting"
            THEN state' = "stateInput" /\ UNCHANGED albumListValid
            ELSE UpdateTail(state)
    /\ UNCHANGED <<quitting, list, albumTracks, playback, cmdInFlight,
                   sess, nsess, lyr, dl, payloads, rejected>>
    /\ UNCHANGED pureVars

\* the items of m.albumTrackList: the album header, then the tracks
AlbumHeader == SongItem(Rep("x", 12), "header", TRUE)
AlbumListItems == IF albumListValid THEN <<AlbumHeader>> \o albumTracks ELSE <<>>

\* for _, origTrack := range m.albumTracks { if origTrack.id == item.id
OrigTracks(item) == { i \in 1..Len(albumTracks) : albumTracks[i].id = item.id }
OrigTrack(item) ==
    albumTracks[CHOOSE i \in OrigTracks(item) : \A j \in OrigTracks(item) : i <= j]

\* m.stopPlayback(); m.state = stateLoading; go m.runInternalPlayback(item)
StartSession(item) ==
    /\ nsess < MaxSessions
    /\ nsess' = nsess + 1
    /\ sess' = [StoppedSessions EXCEPT ![nsess + 1] =
                    [pc |-> "validate", item |-> item, proc |-> "none",
                     paused |-> FALSE, cover |-> "none", tick |-> "none"]]
    /\ playback' = StoppedPlayback
    /\ state' = "stateLoading"

\* a key p that plays whatever item is under the cursor of the search list
PressPSelecting_NoAlbumTest(i) ==
    /\ Alive
    /\ state = "stateSelecting"
    /\ IF InvalidTrackID(list[i].id)
       THEN /\ rejected' = rejected \cup {"list"}
            /\ UNCHANGED <<state, playback, sess, nsess>>
       ELSE StartSession(list[i]) /\ UNCHANGED rejected
    /\ UNCHANGED <<quitting, list, albumTracks, albumListValid, cmdInFlight,
                   lyr, dl, payloads>>
    /\ UNCHANGED pureVars

\* case "p", m.state == stateSelecting, with the cursor on item i of m.list
PressPSelecting(i) ==
    /\ Alive
    /\ state = "stateSelecting"
    /\ LET item == list[i] IN
       IF item.isAlbum
       THEN UNCHANGED <<state, playback, sess, nsess, rejected>>
       ELSE IF InvalidTrackID(item.id)
            THEN /\ rejected' = rejected \cup {"list"}
                 /\ UNCHANGED <<state, playback, sess, nsess>>
            ELSE StartSession(item) /\ UNCHANGED rejected
    /\ UNCHANGED <<quitting, list, albumTracks, albumListValid, cmdInFlight,
                   lyr, dl, payloads>>
    /\ UNCHANGED pureVars

\* case "p", m.state == stateSelecting
KeyPSelecting == \E i \in 1..Len(list) : PressPSelecting(i)

\* case "p", m.state == stateViewingAlbumTracks, with the cursor on item i of
\* m.albumTrackList
PressPAlbum(i) ==
    /\ Alive
    /\ state = "stateViewingAlbumTracks"
    /\ albumListValid
    /\ LET item == AlbumListItems[i] IN
       IF item.isAlbum
       THEN UNCHANGED <<state, playback, sess, nsess, rejected>>
       ELSE IF OrigTracks(item) = {}
            THEN /\ playback' = StoppedPlayback
                 /\ sess' = StoppedSessions
                 /\ UNCHANGED <<state, nsess, rejected>>
            ELSE IF InvalidTrackID(OrigTrack(item).id)
                 THEN /\ playback' = StoppedPlayback
                      /\ sess' = StoppedSessions
                      /\ rejected' = rejected \cup {"album"}
                      /\ UNCHANGED <<state, nsess>>
                 ELSE StartSession(OrigTrack(item)) /\ UNCHANGED rejected
    /\ UNCHANGED <<quitting, list, albumTracks, albumListValid, cmdInFlight,
                   lyr, dl, payloads>>
    /\ UNCHANGED pureVars

\* case "p", m.state == stateViewingAlbumTracks
KeyPAlbum == \E i \in 1..Len(AlbumListItems) : PressPAlbum(i)

\* case " ": togglePause
KeySpace ==
    /\ Alive
    /\ state = "statePlaying"
    /\ IF playback.player # 0
       THEN /\ playback' = [playback EXCEPT !.isPaused = ~@]
            /\ sess' = [sess EXCEPT ![playback.player].paused = ~playback.isPaused]
       ELSE UNCHANGED <<playback, sess>>
    /\ UNCHANGED <<state, quitting, list, albumTracks, albumListValid,
                   cmdInFlight, nsess, lyr, dl, payloads, rejected>>
    /\ UNCHANGED pureVars

\* case "s"
KeyS ==
    /\ Alive
    /\ state = "statePlaying"
    /\ playback' = StoppedPlayback
    /\ sess' = StoppedSessions
    /\ UNCHANGED <<state, quitting, list, albumTracks, albumListValid,
                   cmdInFlight, nsess, lyr, dl, payloads, rejected>>
    /\ UNCHANGED pureVars

\* case "enter", m.state == stateInput
KeyEnterInput ==
    /\ Alive
    /\ state = "stateInput"
    /\ cmdInFlight = "none"
    /\ state' = "stateSearching"
    /\ cmdInFlight' = "searchSongs"
    /\ UNCHANGED <<quitting, list, albumTracks, albumListValid, playback,
                   sess, nsess, lyr, dl, payloads, rejected>>
    /\ UNCHANGED pureVars

\* case "enter", m.state == stateSelecting
KeyEnterSelecting ==
    /\ Alive
    /\ state = "stateSelecting"
    /\ \E i \in 1..Len(list) :
          LET item == list[i] IN
          IF item.isAlbum
          THEN /\ cmdInFlight = "none"
               /\ state' = "stateSearching"
               /\ cmdInFlight' = "searchAlbum"
               /\ UNCHANGED dl
          ELSE IF InvalidTrackID(item.id)
               THEN UNCHANGED <<state, cmdInFlight, dl>>
               ELSE /\ dl = "none"
                    /\ state' = "stateDownloading"
                    /\ dl' = "downloading"
                    /\ UNCHANGED cmdInFlight
    /\ UNCHANGED <<quitting, list, albumTracks, albumListValid, playback,
                   sess, nsess, lyr, payloads, rejected>>
    /\ UNCHANGED pureVars

\* case "enter", m.state == stateViewingAlbumTracks
KeyEnterAlbum ==
    /\ Alive
    /\ state = "stateViewingAlbumTracks"
    /\ albumListValid
    /\ \E i \in 1..Len(AlbumListItems) :
          LET item == AlbumListItems[i] IN
          IF item.isAlbum
          THEN /\ dl = "none"
               /\ state' = "stateDownloadingAlbum"
               /\ dl' = "album"
               /\ UNCHANGED <<playback, sess>>
          ELSE /\ playback' = StoppedPlayback
               /\ sess' = StoppedSessions
               /\ IF OrigTracks(item) = {} \/ InvalidTrackID(item.id)
                  THEN UNCHANGED <<state, dl>>
                  ELSE /\ dl = "none"
                       /\ state' = "stateDownloading"
                       /\ dl' = "downloading"
    /\ UNCHANGED <<quitting, list, albumTracks, albumListValid, cmdInFlight,
                   nsess, lyr, payloads, rejected>>
    /\ UNCHANGED pureVars

(***************************************************************************)
(* Update: the messages of the search commands and of the download         *)
(* goroutine.                                                              *)
(***************************************************************************)
\* searchYTMusic answers: case searchResultsMsg, or case errMsg
SearchAnswers ==
    /\ Alive
    /\ cmdInFlight = "searchSongs"
    /\ cmdInFlight' = "none"
    /\ \/ \E items \in payloads.search :
             /\ state' = "stateSelecting"
             /\ list' = items
       \/ /\ state' = "stateError"
          /\ UNCHANGED list
    /\ UNCHANGED <<quitting, albumTracks, albumListValid, playback,
                   sess, nsess, lyr, dl, payloads, rejected>>
    /\ UNCHANGED pureVars

\* searchAlbumWithTracks answers: case albumTracksFetchedMsg, or case errMsg
AlbumSearchAnswers ==
    /\ Alive
    /\ cmdInFlight = "searchAlbum"
    /\ cmdInFlight' = "none"
    /\ \/ \E tracks \in payloads.album :
             /\ albumTracks' = tracks
             /\ albumListValid' = TRUE
             /\ state' = "stateViewingAlbumTracks"
       \/ /\ state' = "stateError"
          /\ UNCHANGED <<albumTracks, albumListValid>>
    /\ UNCHANGED <<quitting, list, playback,
                   sess, nsess, lyr, dl, payloads, rejected>>
    /\ UNCHANGED pureVars

\* the messages of the download goroutine that change m.state: case
\* convertMsg, case doneMsg (with tea.Quit), case errMsg
DownloadMsg ==
    /\ Alive
    /\ dl \in {"downloading", "converting", "album"}
    /\ \/ /\ dl = "downloading"
          /\ dl' = "converting"
          /\ state' = "stateConverting"
          /\ UNCHANGED <<playback, cmdInFlight, sess, nsess, lyr>>
       \/ /\ dl \in {"converting", "album"}
          /\ state' = "stateFinished"
          /\ ProcessExits
       \/ /\ dl' = "none"
          /\ state' = "stateError"
          /\ UNCHANGED <<playback, cmdInFlight, sess, nsess, lyr>>
    /\ UNCHANGED <<quitting, list, albumTracks, albumListValid, payloads, rejected>>
    /\ UNCHANGED pureVars

(***************************************************************************)
(* runInternalPlayback, one goroutine per key p.  A step that can fail     *)
(* ends in Send(errMsg) and return.                                        *)
(***************************************************************************)
Goto(s, pc) == sess' = [sess EXCEPT ![s].pc = pc]

UIUnchanged ==
    UNCHANGED <<state, quitting, list, albumTracks, albumListValid,
                cmdInFlight, nsess, dl, payloads, rejected, pureVars>>

\* if item.id == "" || len(item.id) < 10 { Send(errMsg); return }, then
\* client.GetVideo, track.Formats.Type("audio"), client.GetStreamURL,
\* cmd.StdoutPipe, cmd.Start: any of the calls may fail, none touches the
\* playback state.  proc = "running" is the ffmpeg process cmd.Start made.
RIPLookup(s) ==
    /\ Alive
    /\ sess[s].pc = "validate"
    /\ IF InvalidTrackID(sess[s].item.id)
       THEN Goto(s, "sendErr")
       ELSE \/ sess' = [sess EXCEPT ![s].pc = "storeCmd", ![s].proc = "running"]
            \/ Goto(s, "sendErr")
    /\ UIUnchanged /\ UNCHANGED <<playback, lyr>>

\* m.playback.cmd = cmd; mp3.Decode(io.NopCloser(stdout)), which reads the
\* head of ffmpeg's output and may fail (ffmpeg is left as it is)
RIPStoreCmd(s) ==
    /\ Alive
    /\ sess[s].pc = "storeCmd"
    /\ playback' = [playback EXCEPT !.cmd = s]
    /\ \/ Goto(s, "installPlayer")
       \/ Goto(s, "sendErr")
    /\ UIUnchanged /\ UNCHANGED lyr

\* a goroutine that starts its lyric goroutine before it installs the player
\* and initialises the playback state
RIPInstallPlayer_StartsLyrics(s) ==
    /\ Alive
    /\ sess[s].pc = "installPlayer"
    /\ playback' = [playback EXCEPT !.player = s]
    /\ sess' = [sess EXCEPT ![s].pc = "initState", ![s].paused = FALSE]
    /\ lyr' = [lyr EXCEPT ![s] = "fetch"]
    /\ UIUnchanged

\* ctrl := &beep.Ctrl{Streamer: streamer, Paused: false}; m.playback.player = ctrl
RIPInstallPlayer(s) ==
    /\ Alive
    /\ sess[s].pc = "installPlayer"
    /\ playback' = [playback EXCEPT !.player = s]
    /\ sess' = [sess EXCEPT ![s].pc = "initState", ![s].paused = FALSE]
    /\ UIUnchanged /\ UNCHANGED lyr

\* m.playback.playingSong = track.Title ... m.playback.resizedCoverPath = ""
RIPInitState(s) ==
    /\ Alive
    /\ sess[s].pc = "initState"
    /\ playback' = [playback EXCEPT
                        !.playingSong = <<sess[s].item.title>>,
                        !.isPaused = FALSE,
                        !.lyrics = NoLyrics,
                        !.currentLyricIndex = -1,
                        !.albumCover = "", !.coverPath = "",
                        !.kittyImage = "", !.resizedCoverPath = ""]
    /\ Goto(s, "sendPlay")
    /\ UIUnchanged /\ UNCHANGED lyr

\* a goroutine that fetches the lyrics itself and sends playMsg when the
\* lyric message was delivered
RecvPlayMsg_AwaitsLyrics(s) ==
    /\ Alive
    /\ sess[s].pc = "sendPlay"
    /\ IF playback.lyrics.of # s
       THEN /\ lyr[s] = "none"
            /\ lyr' = [lyr EXCEPT ![s] = "fetch"]
            /\ UNCHANGED <<playback, state, sess>>
       ELSE /\ playback' = [playback EXCEPT
                    !.playingSong = <<sess[s].item.title, " - ", sess[s].item.author>>]
            /\ state' = "statePlaying"
            /\ sess' = [sess EXCEPT ![s].pc = "waitDone", ![s].item = NoItem,
                            ![s].cover = "fetch", ![s].tick = "pending"]
            /\ UNCHANGED lyr
    /\ UNCHANGED <<quitting, list, albumTracks, albumListValid,
                   cmdInFlight, nsess, dl, payloads, rejected>>
    /\ UNCHANGED pureVars

\* m.program.Send(playMsg{...}) and Update's case playMsg, which returns the
\* tea.Tick of the first lyricTickMsg.  Send returns and
\* the goroutine, which no longer reads its track, starts the cover goroutine
\* and the lyric goroutine (go func() { ... }()), calls speaker.Play
\* and waits on done: steps on its own variables only
RecvPlayMsg(s) ==
    /\ Alive
    /\ sess[s].pc = "sendPlay"
    /\ playback' = [playback EXCEPT
                        !.playingSong = <<sess[s].item.title, " - ", sess[s].item.author>>]
    /\ state' = "statePlaying"
    /\ sess' = [sess EXCEPT ![s].pc = "waitDone", ![s].item = NoItem,
                            ![s].cover = "fetch", ![s].tick = "pending"]
    /\ lyr' = [lyr EXCEPT ![s] = "fetch"]
    /\ UNCHANGED <<quitting, list, albumTracks, albumListValid,
                   cmdInFlight, nsess, dl, payloads, rejected>>
    /\ UNCHANGED pureVars

\* the stream ends: ffmpeg wrote its last byte or was killed, the speaker
\* drained the streamer of a ctrl that is not paused, the callback sent on
\* done.  A paused ctrl streams silence and never ends.
RIPDone(s) ==
    /\ Alive
    /\ sess[s].pc = "waitDone"
    /\ ~sess[s].paused
    /\ sess' = [sess EXCEPT ![s].pc = "sendStop",
                            ![s].proc = "ended"]
    /\ UIUnchanged /\ UNCHANGED <<playback, lyr>>

\* the goroutine returned: its locals are gone, its process is what it was
Returned(s) == [pc |-> "returned", item |-> NoItem, proc |-> sess[s].proc,
                paused |-> FALSE, cover |-> sess[s].cover,
                tick |-> sess[s].tick]

\* m.program.Send(stopMsg{}) and Update's case stopMsg
RecvStopMsg(s) ==
    /\ Alive
    /\ sess[s].pc = "sendStop"
    /\ state' = IF state = "statePlaying" /\ Len(albumTracks) > 0 /\ albumListValid
                THEN "stateViewingAlbumTracks"
                ELSE "stateSelecting"
    /\ sess' = [sess EXCEPT ![s] = Returned(s)]
    /\ UNCHANGED <<quitting, list, albumTracks, albumListValid, playback,
                   cmdInFlight, nsess, lyr, dl, payloads, rejected>>
    /\ UNCHANGED pureVars

\* m.program.Send(errMsg(err)) and Update's case errMsg
RecvErrMsg(s) ==
    /\ Alive
    /\ sess[s].pc = "sendErr"
    /\ state' = "stateError"
    /\ sess' = [sess EXCEPT ![s] = Returned(s)]
    /\ UNCHANGED <<quitting, list, albumTracks, albumListValid, playback,
                   cmdInFlight, nsess, lyr, dl, payloads, rejected>>
    /\ UNCHANGED pureVars

(***************************************************************************)
(* The lyric goroutine of a playback goroutine: fetchLyrics, then one      *)
(* Send.                                                                   *)
(***************************************************************************)
\* Send(lyricsFetchedMsg(lyrics)) and Update's case lyricsFetchedMsg
RecvLyricsFetched(s) ==
    /\ Alive
    /\ lyr[s] = "fetch"
    /\ playback' = [playback EXCEPT !.lyrics = [kind |-> "synced", of |-> s]]
    /\ lyr' = [lyr EXCEPT ![s] = "none"]
    /\ UIUnchanged /\ UNCHANGED sess

\* a noLyricsMsg handled as an error of the session
RecvNoLyrics_AsError(s) ==
    /\ Alive
    /\ lyr[s] = "fetch"
    /\ playback' = [playback EXCEPT !.lyrics = [kind |-> "none", of |-> s]]
    /\ lyr' = [lyr EXCEPT ![s] = "none"]
    /\ state' = "stateError"
    /\ UNCHANGED <<quitting, list, albumTracks, albumListValid,
                   cmdInFlight, nsess, dl, payloads, rejected, pureVars, sess>>

\* Send(noLyricsMsg{}) and Update's case noLyricsMsg
RecvNoLyrics(s) ==
    /\ Alive
    /\ lyr[s] = "fetch"
    /\ playback' = [playback EXCEPT !.lyrics = [kind |-> "none", of |-> s]]
    /\ lyr' = [lyr EXCEPT ![s] = "none"]
    /\ UIUnchanged /\ UNCHANGED sess

(***************************************************************************)
(* The program.                                                            *)
(***************************************************************************)
Next ==
    \/ KeyCtrlC \/ KeyQ \/ KeyEsc \/ KeyOther
    \/ KeyPSelecting \/ KeyPAlbum \/ KeySpace \/ KeyS
    \/ KeyEnterInput \/ KeyEnterSelecting \/ KeyEnterAlbum
    \/ SearchAnswers \/ AlbumSearchAnswers \/ DownloadMsg
    \/ \E s \in Sessions :
          \/ RIPLookup(s) \/ RIPStoreCmd(s)
          \/ RIPInstallPlayer(s) \/ RIPInitState(s)
          \/ RecvPlayMsg(s)
          \/ RIPDone(s) \/ RecvStopMsg(s) \/ RecvErrMsg(s)
          \/ RecvLyricsFetched(s) \/ RecvNoLyrics(s)

Spec == Init /\ [][Next]_vars

(***************************************************************************)
(* Properties of the playback sessions.                                    *)
(***************************************************************************)
\* the session the playback state points to (0 for none): its controller is
\* m.playback.player
CurrentSession == playback.player

\* C1: a lyricsFetchedMsg or noLyricsMsg of a session that was stopped or
\* replaced (its controller is no longer the installed one) is discarded: it
\* leaves the lyric track of the playback state as it was.
C1_LateLyricsDiscarded ==
    [][\A s \in Sessions :
          (RecvLyricsFetched(s) \/ RecvNoLyrics(s)) /\ CurrentSession # s
              => playback'.lyrics = playback.lyrics]_vars

\* a session with an active decode pipeline: its ffmpeg process runs, or its
\* controller was handed to the speaker, is not paused and has not ended
ActivePipeline(s) ==
    \/ sess[s].proc = "running"
    \/ sess[s].pc = "waitDone" /\ ~sess[s].paused

\* C2: in every reachable state at most one playback session has an active
\* decode pipeline.
C2_OneActivePipeline ==
    Cardinality({s \in Sessions : ActivePipeline(s)}) <= 1

(***************************************************************************)
(* Starting playback on tracks with an empty or short identifier: the      *)
(* lists hold such tracks, and runInternalPlayback is called once on its   *)
(* own with any track.                                                     *)
(***************************************************************************)
InitStart ==
    /\ InitUI([search |-> InvalidSearchPayloads, album |-> InvalidAlbumPayloads])
    /\ resolver = Off /\ seek = Off /\ synced = Off /\ lrc = Off

\* go m.runInternalPlayback(item) for any item
GoRunInternalPlayback ==
    /\ Alive
    /\ nsess = 0
    /\ \E item \in {SongA, SongShort, SongEmpty} :
          sess' = [sess EXCEPT ![nsess + 1] =
                      [pc |-> "validate", item |-> item, proc |-> "none",
                       paused |-> FALSE, cover |-> "none", tick |-> "none"]]
    /\ nsess' = nsess + 1
    /\ UNCHANGED <<state, quitting, list, albumTracks, albumListValid, playback,
                   cmdInFlight, lyr, dl, payloads, rejected>>
    /\ UNCHANGED pureVars

NextStart == Next \/ GoRunInternalPlayback

SpecStart == InitStart /\ [][NextStart]_vars

\* C7: playback of a track whose identifier is empty or shorter than 10 is
\* rejected before any network activity and without a session handle: key p
\* in the search list and in the album view starts no goroutine for it, and
\* runInternalPlayback called with it goes straight to its errMsg, starting
\* no process and leaving the playback state alone.
C7_InvalidIdRejected ==
    [][/\ (KeyPSelecting \/ KeyPAlbum) /\ nsess' # nsess
            => Len(sess'[nsess'].item.id) >= MinIDLen
       /\ \A s \in Sessions :
            sess[s].pc = "validate" /\ Len(sess[s].item.id) < MinIDLen
              /\ sess'[s] # sess[s] /\ Alive'
            => /\ sess'[s] = [sess[s] EXCEPT !.pc = "sendErr"]
               /\ playback' = playback]_vars

\* key p met an invalid track in the search list and in the album view, and
\* a goroutine called with one is about to send its errMsg
C7_Witness ==
    /\ rejected = {"list", "album"}
    /\ \E s \in Sessions :
          /\ sess[s].pc = "sendErr"
          /\ sess[s].item \in {SongShort, SongEmpty}

(***************************************************************************)
(* The album resolver: searchAlbumWithTracks and what it calls.            *)
(***************************************************************************)
\* tracks in one catalog search response
MaxResponse == 2

\* the result size from which the fallback accepts on an album match only
FallbackCap == 10

\* ytmusic.TrackItem: VideoID, Title, Album.Name, the names of Artists
TrackItem(id, title, album, artists) ==
    [VideoID |-> id, Title |-> title, Album |-> album, Artists |-> artists]

GreatestHits ==
    <<"G", "r", "e", "a", "t", "e", "s", "t", " ", "H", "i", "t", "s">>
ExampleBand ==
    <<"E", "x", "a", "m", "p", "l", "e", " ", "B", "a", "n", "d">>
GreatestHitsRemastered ==
    <<"G", "r", "e", "a", "t", "e", "s", "t", " ", "H", "i", "t", "s",
      " ", "(", "R", "e", "m", "a", "s", "t", "e", "r", "e", "d", ")">>
UnrelatedAlbum ==
    <<"U", "n", "r", "e", "l", "a", "t", "e", "d", " ", "A", "l", "b",
      "u", "m">>
ExampleBandTopic ==
    <<"E", "x", "a", "m", "p", "l", "e", " ", "B", "a", "n", "d", " ",
      "-", " ", "T", "o", "p", "i", "c">>
GreatestHitsLower ==
    <<"g", "r", "e", "a", "t", "e", "s", "t", " ", "h", "i", "t", "s">>
Somebody ==
    <<"S", "o", "m", "e", "b", "o", "d", "y">>
GreatestUpper ==
    <<"G", "R", "E", "A", "T", "E", "S", "T">>
ExampleBandVevo ==
    <<"E", "X", "A", "M", "P", "L", "E", " ", "B", "A", "N", "D", " ",
      "V", "E", "V", "O">>
Example ==
    <<"E", "x", "a", "m", "p", "l", "e">>
Band ==
    <<"B", "a", "n", "d">>

\* the album title as the list shows it: the disc emoji (one character here)
\* and a space in front
DiscGreatestHits == <<"[disc]", " ">> \o GreatestHits \o <<" ">>

\* what the catalog holds
TrackRemastered == TrackItem(Rep("a", 11), <<"One">>, GreatestHitsRemastered, <<ExampleBand>>)
TrackUnrelated == TrackItem(Rep("b", 11), <<"Two">>, UnrelatedAlbum, <<ExampleBand>>)
TrackShortID == TrackItem(Rep("c", 9), <<"Three">>, GreatestHits, <<ExampleBandTopic>>)
TrackOtherArtist == TrackItem(Rep("d", 10), <<"Four">>, GreatestHitsLower, <<Somebody>>)
TrackSameID == TrackItem(Rep("a", 11), <<"One again">>, GreatestUpper, <<ExampleBandVevo>>)
TrackNoAlbum == TrackItem(Rep("e", 10), <<"Five">>, <<>>, <<Example, Band>>)

Catalog == {TrackRemastered, TrackUnrelated, TrackShortID, TrackOtherArtist,
            TrackSameID, TrackNoAlbum}

\* result, err := searchClient.Next()
Failure == [err |-> TRUE, Tracks |-> <<>>]
Found(tracks) == [err |-> FALSE, Tracks |-> tracks]
SearchResponses ==
    {Failure} \cup
    UNION { { Found(t) : t \in [1..n -> Catalog] } : n \in 0..MaxResponse }

\* a track of the same artist on another album, one for each k
ArtistOnly(k) == TrackItem(Rep("w", 9 + k), <<"More">>, UnrelatedAlbum, <<ExampleBand>>)
\* more same-artist tracks than the cap, then a track of the album
LongPlaylist == [k \in 1..(FallbackCap + 1) |-> ArtistOnly(k)] \o <<TrackRemastered>>

\* watchTracks, err := ytmusic.GetWatchPlaylist(...)
WatchResponses ==
    {Failure, Found(<<>>),
     Found(<<TrackShortID, TrackOtherArtist>>),
     Found(<<TrackShortID, TrackUnrelated, TrackUnrelated>>),
     Found(<<TrackOtherArtist, TrackNoAlbum, TrackSameID>>),
     Found(LongPlaylist)}

\* cleanArtistName
cleanArtistName(name) ==
    TrimSpace(TrimSuffix(TrimSuffix(TrimSuffix(TrimSuffix(TrimSuffix(
        name, <<" ", "-", " ", "T", "o", "p", "i", "c">>), <<"T", "o", "p", "i", "c">>),
        <<"V", "E", "V", "O">>), <<"V", "e", "v", "o">>),
        <<" ", "O", "f", "f", "i", "c", "i", "a", "l">>))

\* getArtistNames
getArtistNames(artists) == [i \in 1..Len(artists) |-> cleanArtistName(artists[i])]

\* convertYTMusicTrack: a VideoID that is too short becomes the empty id
convertYTMusicTrack(track) ==
    LET short == Len(track.VideoID) < MinIDLen IN
    [id |-> IF short THEN <<>> ELSE track.VideoID,
     title |-> IF short
               THEN <<"[warn] ">> \o track.Title \o <<" (Not available for playback)">>
               ELSE track.Title,
     author |-> Join(getArtistNames(track.Artists), <<",", " ">>),
     isAlbum |-> FALSE]

\* cleanTitle := strings.TrimSpace(strings.TrimPrefix(albumTitle, "[disc] "))
CleanTitle(albumTitle) == TrimSpace(TrimPrefix(albumTitle, <<"[disc]", " ">>))

\* searchQueries
searchQueries(cleanTitle, artistName) ==
    << cleanTitle \o <<" ">> \o artistName,
       artistName \o <<" ", "a", "l", "b", "u", "m", " ">> \o cleanTitle,
       <<"\"">> \o cleanTitle \o <<"\"", " ", "\"">> \o artistName \o <<"\"">>,
       cleanTitle >>

\* the query variants, by their place in searchQueries
Variants == 1..Len(searchQueries(<<>>, <<>>))

\* trackAlbumLower, trackArtistLower
TrackAlbumLower(track) == ToLower(track.Album)
TrackArtistLower(track) == ToLower(Join(getArtistNames(track.Artists), <<" ">>))

\* the strict pass's album match without the containment of the track's album
\* in the queried title
AlbumMatch_OneWay(trackAlbumLower, albumNameLower) ==
    \/ Contains(trackAlbumLower, albumNameLower)
    \/ trackAlbumLower = albumNameLower

\* albumMatch of the strict pass
AlbumMatch(trackAlbumLower, albumNameLower) ==
    \/ Contains(trackAlbumLower, albumNameLower)
    \/ Contains(albumNameLower, trackAlbumLower)
    \/ trackAlbumLower = albumNameLower

\* albumMatch of the fallback
AlbumMatchLoose(trackAlbumLower, albumNameLower) ==
    \/ Contains(trackAlbumLower, albumNameLower)
    \/ Contains(albumNameLower, trackAlbumLower)

\* artistMatch
ArtistMatch(trackArtistLower, artistNameLower) ==
    \/ Contains(trackArtistLower, artistNameLower)
    \/ Contains(artistNameLower, trackArtistLower)

\* a duplicate check that finds nothing
IsDuplicate_Never(tracks, videoID) == FALSE

\* for _, existingTrack := range tracks { if existingTrack.id == track.VideoID
IsDuplicate(tracks, videoID) ==
    \E i \in 1..Len(tracks) : tracks[i].id = videoID

\* an identifier check that lets every identifier pass
ValidVideoID_Any(videoID) == TRUE

\* len(track.VideoID) >= 10
ValidVideoID(videoID) == Len(videoID) >= MinIDLen

\* the inputs of searchAlbumWithTracks
AlbumTitles == {DiscGreatestHits}
ArtistNames == {ExampleBand}

\* every track the catalog can answer with
KnownTracks == Catalog \cup { ArtistOnly(k) : k \in 1..(FallbackCap + 1) }

\* albumMatch, artistMatch and convertYTMusicTrack(track) of every known
\* track, for every input: computed once, looked up by the loops below
Matched ==
    [track \in KnownTracks |-> [albumTitle \in AlbumTitles |->
        [artistName \in ArtistNames |->
            [strict |-> AlbumMatch(TrackAlbumLower(track),
                                   ToLower(CleanTitle(albumTitle))),
             loose |-> AlbumMatchLoose(TrackAlbumLower(track),
                                       ToLower(CleanTitle(albumTitle))),
             artist |-> ArtistMatch(TrackArtistLower(track),
                                    ToLower(artistName))]]]]
Converted == [track \in KnownTracks |-> convertYTMusicTrack(track)]

\* a strict pass that puts an accepted track in front of the result
RECURSIVE StrictPass_Prepends(_, _, _, _)
StrictPass_Prepends(tracks, candidates, albumTitle, artistName) ==
    IF candidates = <<>> THEN tracks
    ELSE LET track == Head(candidates)
             accept ==
                /\ Matched[track][albumTitle][artistName].strict
                /\ Matched[track][albumTitle][artistName].artist
                /\ ~IsDuplicate(tracks, track.VideoID)
                /\ ValidVideoID(track.VideoID)
         IN  StrictPass_Prepends(IF accept THEN <<Converted[track]>> \o tracks
                                           ELSE tracks,
                                 Tail(candidates), albumTitle, artistName)

\* the loop over result.Tracks of the strict pass; albumTitle and artistName
\* stand for albumNameLower and artistNameLower, which Matched computes
RECURSIVE StrictPass(_, _, _, _)
StrictPass(tracks, candidates, albumTitle, artistName) ==
    IF candidates = <<>> THEN tracks
    ELSE LET track == Head(candidates)
             accept ==
                /\ Matched[track][albumTitle][artistName].strict
                /\ Matched[track][albumTitle][artistName].artist
                /\ ~IsDuplicate(tracks, track.VideoID)
                /\ ValidVideoID(track.VideoID)
         IN  StrictPass(IF accept THEN Append(tracks, Converted[track])
                                  ELSE tracks,
                        Tail(candidates), albumTitle, artistName)

\* the fallback's loop without the cap on artist matches
RECURSIVE LoosePass_NoCap(_, _, _, _)
LoosePass_NoCap(tracks, candidates, albumTitle, artistName) ==
    IF candidates = <<>> THEN tracks
    ELSE LET track == Head(candidates)
             accept ==
                /\ \/ Matched[track][albumTitle][artistName].loose
                   \/ Matched[track][albumTitle][artistName].artist
                /\ ~IsDuplicate(tracks, track.VideoID)
                /\ ValidVideoID(track.VideoID)
         IN  LoosePass_NoCap(IF accept THEN Append(tracks, Converted[track])
                                       ELSE tracks,
                             Tail(candidates), albumTitle, artistName)

\* the loop over watchTracks of the fallback
RECURSIVE LoosePass(_, _, _, _)
LoosePass(tracks, candidates, albumTitle, artistName) ==
    IF candidates = <<>> THEN tracks
    ELSE LET track == Head(candidates)
             accept ==
                /\ \/ Matched[track][albumTitle][artistName].loose
                   \/ /\ Matched[track][albumTitle][artistName].artist
                      /\ Len(tracks) < FallbackCap
                /\ ~IsDuplicate(tracks, track.VideoID)
                /\ ValidVideoID(track.VideoID)
         IN  LoosePass(IF accept THEN Append(tracks, Converted[track])
                                 ELSE tracks,
                       Tail(candidates), albumTitle, artistName)

\* searchAlbumWithTracks at its first search.  result and watch are the last
\* answers of TrackSearch and GetWatchPlaylist; calls, watchCalls, returned,
\* failed and searchIDs record what the catalog was asked and what it gave.
StartResolver(albumTitle, artistName) ==
    [pc |-> "strict", albumTitle |-> albumTitle, artistName |-> artistName,
     q |-> 1, tracks |-> <<>>, result |-> Found(<<>>), watch |-> Found(<<>>),
     via |-> "none", outcome |-> "none",
     calls |-> [v \in Variants |-> 0], watchCalls |-> 0,
     returned |-> {}, failed |-> FALSE, searchIDs |-> {}]


\* the record after searchClient.Next() answered resp to query q
Searched(resp, via) ==
    [resolver EXCEPT
        !.result = resp,
        !.via = via,
        !.calls[resolver.q] = @ + 1,
        !.returned = IF resp.Tracks # <<>> THEN @ \cup {resolver.q} ELSE @,
        !.failed = @ \/ resp.err,
        !.searchIDs = @ \cup { resp.Tracks[i].VideoID : i \in 1..Len(resp.Tracks) }]

\* a return without the test for an empty result
Return_AlwaysTracks(r, tracks) ==
    [r EXCEPT !.pc = "done", !.tracks = tracks, !.outcome = "albumTracksFetchedMsg"]

\* return albumTracksFetchedMsg(tracks), or the errMsg when there is none
Return(r, tracks) ==
    [r EXCEPT !.pc = "done", !.tracks = tracks,
              !.outcome = IF Len(tracks) = 0 THEN "errMsg"
                          ELSE "albumTracksFetchedMsg"]

\* a first loop that gives up at a failed search
StrictSearch_AbortsOnError ==
    /\ resolver.pc = "strict"
    /\ \E resp \in SearchResponses :
          LET r == Searched(resp, "strict")
              tracks == IF resp.err THEN resolver.tracks
                        ELSE StrictPass(resolver.tracks, resp.Tracks,
                                        resolver.albumTitle, resolver.artistName)
          IN  resolver' =
                IF Len(tracks) > 0 \/ resp.err THEN Return(r, tracks)
                ELSE IF resolver.q < Len(searchQueries(<<>>, <<>>))
                     THEN [r EXCEPT !.q = @ + 1]
                     ELSE [r EXCEPT !.pc = "fallback", !.q = 1]
    /\ UNCHANGED <<uiVars, seek, synced, lrc>>

\* the first loop without its break: every variant is searched
StrictSearch_NoBreak ==
    /\ resolver.pc = "strict"
    /\ \E resp \in SearchResponses :
          LET r == Searched(resp, "strict")
              tracks == IF resp.err THEN resolver.tracks
                        ELSE StrictPass(resolver.tracks, resp.Tracks,
                                        resolver.albumTitle, resolver.artistName)
          IN  resolver' =
                IF resolver.q < Len(searchQueries(<<>>, <<>>))
                THEN [r EXCEPT !.q = @ + 1, !.tracks = tracks]
                ELSE IF Len(tracks) > 0 THEN Return(r, tracks)
                     ELSE [r EXCEPT !.pc = "fallback", !.q = 1]
    /\ UNCHANGED <<uiVars, seek, synced, lrc>>

\* one turn of the first loop: TrackSearch(searchQuery), the strict filter,
\* break if tracks were found
StrictSearch ==
    /\ resolver.pc = "strict"
    /\ \E resp \in SearchResponses :
          LET r == Searched(resp, "strict")
              tracks == IF resp.err THEN resolver.tracks
                        ELSE StrictPass(resolver.tracks, resp.Tracks,
                                        resolver.albumTitle, resolver.artistName)
          IN  resolver' =
                IF Len(tracks) > 0 THEN Return(r, tracks)
                ELSE IF resolver.q < Len(searchQueries(<<>>, <<>>))
                     THEN [r EXCEPT !.q = @ + 1]
                     ELSE [r EXCEPT !.pc = "fallback", !.q = 1]
    /\ UNCHANGED <<uiVars, seek, synced, lrc>>

\* the next turn of the second loop, or the end of the function
NextFallback(r) ==
    IF r.q < Len(searchQueries(<<>>, <<>>))
    THEN [r EXCEPT !.pc = "fallback", !.q = @ + 1]
    ELSE Return(r, r.tracks)

\* one turn of the second loop, up to its search: TrackSearch(searchQuery)
\* again; continue on an error or an empty answer
FallbackSearch ==
    /\ resolver.pc = "fallback"
    /\ \E resp \in SearchResponses :
          LET r == Searched(resp, "fallback") IN
          resolver' = IF resp.err \/ Len(resp.Tracks) = 0
                      THEN NextFallback(r)
                      ELSE [r EXCEPT !.pc = "watch"]
    /\ UNCHANGED <<uiVars, seek, synced, lrc>>

\* the rest of the turn: GetWatchPlaylist(result.Tracks[0].VideoID), the
\* loose filter, break if tracks were found
FallbackWatch ==
    /\ resolver.pc = "watch"
    /\ \E w \in WatchResponses :
          LET r == [resolver EXCEPT !.watch = w, !.watchCalls = @ + 1]
              tracks == IF ~w.err /\ Len(w.Tracks) > 0
                        THEN LoosePass(resolver.tracks, w.Tracks,
                                       resolver.albumTitle, resolver.artistName)
                        ELSE resolver.tracks
          IN  resolver' = IF Len(tracks) > 0 THEN Return(r, tracks)
                          ELSE NextFallback(r)
    /\ UNCHANGED <<uiVars, seek, synced, lrc>>

InitResolver ==
    /\ InitUI([search |-> SearchPayloads, album |-> AlbumPayloads])
    /\ \E albumTitle \in AlbumTitles, artistName \in ArtistNames :
          resolver = StartResolver(albumTitle, artistName)
    /\ seek = Off /\ synced = Off /\ lrc = Off

NextResolver == StrictSearch \/ FallbackSearch \/ FallbackWatch

SpecResolver == InitResolver /\ [][NextResolver]_vars

(***************************************************************************)
(* Properties of the album resolver.                                       *)
(***************************************************************************)
\* C3: when every catalog search returned zero tracks, the resolver ends in
\* the not-found error and has searched each query variant exactly once.
C3_NotFoundOneCallPerVariant ==
    resolver.pc = "done" /\ resolver.returned = {} /\ ~resolver.failed
        => /\ resolver.outcome = "errMsg"
           /\ \A v \in Variants : resolver.calls[v] = 1

\* the candidates the strict pass is to accept, from the words of the rule:
\* album containment in either direction or equality, artist containment in
\* either direction, an identifier of 10 characters or more
Qualifies ==
    [track \in Catalog |-> [albumTitle \in AlbumTitles |-> [artistName \in ArtistNames |->
        LET trackAlbum == ToLower(track.Album)
            album == ToLower(CleanTitle(albumTitle))
            trackArtist == ToLower(Join(getArtistNames(track.Artists), <<" ">>))
            artist == ToLower(artistName)
        IN  /\ \/ Contains(trackAlbum, album)
               \/ Contains(album, trackAlbum)
               \/ trackAlbum = album
            /\ Contains(trackArtist, artist) \/ Contains(artist, trackArtist)
            /\ Len(track.VideoID) >= 10]]]

\* the places of a response whose candidate qualifies and whose identifier
\* no earlier qualifying candidate carries
AcceptedPlaces(candidates) ==
    { i \in 1..Len(candidates) :
        /\ Qualifies[candidates[i]][resolver.albumTitle][resolver.artistName]
        /\ ~\E j \in 1..(i - 1) :
              /\ Qualifies[candidates[j]][resolver.albumTitle][resolver.artistName]
              /\ candidates[j].VideoID = candidates[i].VideoID }

\* C4: the strict pass accepts a candidate if and only if its album and the
\* queried title contain one another or are equal (lower-cased), its artist
\* and the queried artist contain one another, its identifier has at least 10
\* characters and no accepted track has the same identifier: after a strict
\* search the result is the accepted candidates in the order of the response.
\* For "Greatest Hits" the candidate of "Greatest Hits (Remastered)" is
\* accepted and the one of "Unrelated Album" is not.
C4_StrictAcceptance ==
    resolver.pc # "off" /\ resolver.via = "strict" /\ ~resolver.result.err
        => LET candidates == resolver.result.Tracks
               places == AcceptedPlaces(candidates)
           IN  /\ Len(resolver.tracks) = Cardinality(places)
               /\ \A i \in places :
                     resolver.tracks[Cardinality({j \in places : j <= i})].id
                        = candidates[i].VideoID
               /\ candidates = <<TrackRemastered, TrackUnrelated>>
                     => /\ Len(resolver.tracks) = 1
                        /\ resolver.tracks[1].id = TrackRemastered.VideoID

\* the first search answered the two candidates of the example
C4_Witness ==
    /\ resolver.pc = "done"
    /\ resolver.via = "strict"
    /\ resolver.result = Found(<<TrackRemastered, TrackUnrelated>>)
    /\ CleanTitle(resolver.albumTitle) = GreatestHits
    /\ Len(resolver.tracks) = 1

\* the identifiers of a result are all different
UniqueIDs(tracks) ==
    \A i, j \in 1..Len(tracks) : tracks[i].id = tracks[j].id => i = j

\* C5: when only the third query variant returned tracks, every track of the
\* result comes from a response to that variant, and no identifier occurs
\* twice.
C5_FromThirdVariant ==
    resolver.pc = "done" /\ resolver.outcome = "albumTracksFetchedMsg"
      /\ resolver.returned = {3}
        => /\ \A i \in 1..Len(resolver.tracks) :
                 resolver.tracks[i].id \in resolver.searchIDs
           /\ UniqueIDs(resolver.tracks)

\* C5, amended: when only the third query variant returned tracks, every
\* track of the result comes from that variant's response if the strict pass
\* accepted one of its candidates, and otherwise from the related tracks of
\* its first candidate; no identifier occurs twice.
C5_FromThirdVariantOrItsRelated ==
    resolver.pc = "done" /\ resolver.outcome = "albumTracksFetchedMsg"
      /\ resolver.returned = {3}
        => LET from == IF resolver.via = "strict" THEN resolver.result.Tracks
                       ELSE resolver.watch.Tracks
           IN  /\ \A i \in 1..Len(resolver.tracks) :
                     \E k \in 1..Len(from) : from[k].VideoID = resolver.tracks[i].id
               /\ resolver.via = "strict"
                     => \A i \in 1..Len(resolver.tracks) :
                           resolver.tracks[i].id \in resolver.searchIDs
               /\ UniqueIDs(resolver.tracks)

\* only the third variant returned tracks, two of them with one identifier,
\* and the strict pass accepted
C5_Witness ==
    /\ resolver.pc = "done"
    /\ resolver.returned = {3}
    /\ resolver.via = "strict"
    /\ resolver.result = Found(<<TrackRemastered, TrackSameID>>)
    /\ Len(resolver.tracks) = 1

\* C6: every track of a resolver result, of the strict pass or of the
\* fallback, has an identifier of at least 10 characters.
C6_ResultIDsValid ==
    resolver.pc # "off"
        => \A i \in 1..Len(resolver.tracks) : Len(resolver.tracks[i].id) >= MinIDLen

\* the fallback returned tracks from related tracks one of which has a short
\* identifier
C6_Witness ==
    /\ resolver.pc = "done"
    /\ resolver.outcome = "albumTracksFetchedMsg"
    /\ resolver.via = "fallback"
    /\ \E k \in 1..Len(resolver.watch.Tracks) :
          Len(resolver.watch.Tracks[k].VideoID) < MinIDLen

\* the album and the artist of a related track against the query, from the
\* words of the fallback rule: containment in either direction
RelatedMatch ==
    [track \in KnownTracks |-> [albumTitle \in AlbumTitles |-> [artistName \in ArtistNames |->
        LET trackAlbum == ToLower(track.Album)
            album == ToLower(CleanTitle(albumTitle))
            trackArtist == ToLower(Join(getArtistNames(track.Artists), <<" ">>))
            artist == ToLower(artistName)
        IN  [album |-> Contains(trackAlbum, album) \/ Contains(album, trackAlbum),
             artist |-> Contains(trackArtist, artist) \/ Contains(artist, trackArtist)]]]]

\* the places of the related tracks the fallback rule accepts, among the
\* first i
RECURSIVE RelatedAccepted(_, _)
RelatedAccepted(candidates, i) ==
    IF i = 0 THEN {}
    ELSE LET before == RelatedAccepted(candidates, i - 1)
             m == RelatedMatch[candidates[i]][resolver.albumTitle][resolver.artistName]
         IN  IF /\ Len(candidates[i].VideoID) >= 10
                /\ ~\E j \in before : candidates[j].VideoID = candidates[i].VideoID
                /\ m.album \/ (m.artist /\ Cardinality(before) < 10)
             THEN before \cup {i}
             ELSE before

\* C21: in the fallback a related track is accepted if and only if its
\* identifier has at least 10 characters, it is not in the result yet, and
\* its album matches by containment or its artist matches while the result
\* holds fewer than 10 tracks; a track without an album match is never added
\* to a result of 10 tracks.
C21_FallbackAcceptance ==
    resolver.pc # "off" /\ resolver.watchCalls > 0
        => LET candidates == resolver.watch.Tracks
               places == RelatedAccepted(candidates, Len(candidates))
           IN  /\ Len(resolver.tracks) = Cardinality(places)
               /\ \A i \in places :
                     resolver.tracks[Cardinality({j \in places : j <= i})].id
                        = candidates[i].VideoID
               /\ \A i \in places :
                     Cardinality({j \in places : j < i}) >= 10
                        => RelatedMatch[candidates[i]][resolver.albumTitle]
                                       [resolver.artistName].album

\* the related tracks were more tracks of the artist than the cap and then a
\* track of the album: ten of the artist and the one of the album were taken
C21_Witness ==
    /\ resolver.pc = "done"
    /\ resolver.watch = Found(LongPlaylist)
    /\ Len(resolver.tracks) = FallbackCap + 1
    /\ resolver.tracks[FallbackCap + 1].id = TrackRemastered.VideoID

\* C22: a failed catalog search for one query variant never aborts the
\* resolution: the resolver goes on with the next variant (after the last
\* variant of the strict pass, with the fallback; after the last variant of
\* the fallback it has tried everything), and what it returns is a track
\* list or the not-found error, nothing else.
C22_SearchFailureAbsorbed ==
    /\ [][resolver.pc \in {"strict", "fallback"} /\ resolver'.result.err
            => IF resolver.q < Cardinality(Variants)
               THEN resolver'.pc = resolver.pc /\ resolver'.q = resolver.q + 1
               ELSE IF resolver.pc = "strict"
                    THEN resolver'.pc = "fallback" /\ resolver'.q = 1
                    ELSE /\ resolver'.pc = "done"
                         /\ \A v \in Variants : resolver'.calls[v] = 2]_vars
    /\ [](resolver.pc = "done"
            => \/ resolver.outcome = "albumTracksFetchedMsg" /\ Len(resolver.tracks) > 0
               \/ resolver.outcome = "errMsg" /\ Len(resolver.tracks) = 0)

\* the search for the first variant failed and the second variant gave the
\* tracks
C22_Witness ==
    /\ resolver.pc = "done"
    /\ resolver.failed
    /\ resolver.via = "strict"
    /\ resolver.q = 2
    /\ resolver.outcome = "albumTracksFetchedMsg"

\* C23: searchAlbumWithTracks returns either a track list that is not empty
\* and whose identifiers are pairwise distinct, or the not-found error;
\* never an empty track list as a success.
C23_NonEmptyDistinctOrError ==
    resolver.pc = "done"
        => \/ /\ resolver.outcome = "albumTracksFetchedMsg"
              /\ resolver.tracks # <<>>
              /\ \A i, j \in 1..Len(resolver.tracks) :
                    i # j => resolver.tracks[i].id # resolver.tracks[j].id
           \/ /\ resolver.outcome = "errMsg"
              /\ resolver.tracks = <<>>

\* a result of two tracks
C23_Witness ==
    /\ resolver.pc = "done"
    /\ resolver.outcome = "albumTracksFetchedMsg"
    /\ Len(resolver.tracks) = 2
    /\ resolver.tracks[1].id # resolver.tracks[2].id

\* C24: the accepted tracks keep the order in which the catalog returned
\* them: the result of the strict pass is a subsequence of the accepting
\* response, each identifier at its first accepted occurrence, with no
\* re-sorting.
C24_ResultKeepsCatalogOrder ==
    resolver.pc = "done" /\ resolver.via = "strict"
      /\ resolver.outcome = "albumTracksFetchedMsg"
        => LET candidates == resolver.result.Tracks
               n == Len(resolver.tracks)
           IN  \E place \in [1..n -> 1..Len(candidates)] :
                  /\ \A i \in 1..n :
                        /\ candidates[place[i]].VideoID = resolver.tracks[i].id
                        /\ Qualifies[candidates[place[i]]][resolver.albumTitle]
                                    [resolver.artistName]
                        /\ ~\E k \in 1..(place[i] - 1) :
                              /\ candidates[k].VideoID = resolver.tracks[i].id
                              /\ Qualifies[candidates[k]][resolver.albumTitle]
                                          [resolver.artistName]
                  /\ \A i, j \in 1..n : i < j => place[i] < place[j]

\* the response held two acceptable tracks, the one with the greater
\* identifier first, and the result has them in that order
C24_Witness ==
    /\ resolver.pc = "done" /\ resolver.via = "strict"
    /\ resolver.result = Found(<<TrackNoAlbum, TrackRemastered>>)
    /\ Len(resolver.tracks) = 2
    /\ resolver.tracks[1].id = TrackNoAlbum.VideoID
    /\ resolver.tracks[2].id = TrackRemastered.VideoID

\* C20: the resolver stops iterating the query variants as soon as one
\* variant yields an accepted candidate: it returns and no later variant is
\* searched; and the related-tracks fallback starts only when the strict
\* pass went over all variants and accepted nothing.
C20_StopsAtFirstAcceptingVariant ==
    [][resolver.pc = "strict"
          => LET accepted == AcceptedPlaces(resolver'.result.Tracks) # {} IN
             /\ accepted
                  => /\ resolver'.pc = "done"
                     /\ resolver'.outcome = "albumTracksFetchedMsg"
                     /\ \A v \in Variants : v > resolver.q => resolver'.calls[v] = 0
             /\ resolver'.pc = "fallback"
                  => /\ ~accepted
                     /\ resolver'.tracks = <<>>
                     /\ \A v \in Variants : resolver'.calls[v] = 1]_vars

\* the first variant yielded an accepted candidate and no other variant was
\* searched
C20_Witness ==
    /\ resolver.pc = "done"
    /\ resolver.via = "strict"
    /\ resolver.q = 1
    /\ Len(resolver.tracks) > 0
    /\ \A v \in Variants : v > 1 => resolver.calls[v] = 0

(***************************************************************************)
(* Seeking: seekForward and seekBackward on the StreamSeeker of the        *)
(* installed controller, and the speaker pulling samples in between.       *)
(***************************************************************************)
\* the sample rate of the speaker and of ffmpeg's output
SampleRate == 44100

\* the longest track, in seconds
MaxTrackSeconds == 12

\* 5*44100
SeekStep == 5 * SampleRate

\* sr.N(time.Second/10): the samples the speaker pulls at a time
BufferSize == SampleRate \div 10

\* seeker.Len() of the tracks
TrackLengths ==
    {0, 1, BufferSize, SeekStep - 1, SeekStep, SeekStep + 1,
     MaxTrackSeconds * SampleRate + 7}

\* seeker.Seek(p): the position becomes p; a p outside 0..Len() is an error,
\* which the callers drop, and the position stays
Seek(pos, len, p) == IF p < 0 \/ p > len THEN pos ELSE p

\* the forward clamp that stops on the length itself
ForwardTarget_ToLen(pos, len) ==
    IF pos + SeekStep >= len THEN len ELSE pos + SeekStep

\* newPos of seekForward
ForwardTarget(pos, len) ==
    IF pos + SeekStep >= len THEN len - 1 ELSE pos + SeekStep

\* newPos of seekBackward
BackwardTarget(pos) ==
    IF pos - SeekStep < 0 THEN 0 ELSE pos - SeekStep

\* case "right": m.seekForward()
SeekForward ==
    /\ seek.pc = "playing"
    /\ seek' = [seek EXCEPT !.pos = Seek(seek.pos, seek.len,
                                         ForwardTarget(seek.pos, seek.len)),
                            !.before = seek.pos, !.last = "seekForward"]
    /\ UNCHANGED <<uiVars, resolver, synced, lrc>>

\* case "left": m.seekBackward()
SeekBackward ==
    /\ seek.pc = "playing"
    /\ seek' = [seek EXCEPT !.pos = Seek(seek.pos, seek.len,
                                         BackwardTarget(seek.pos)),
                            !.before = seek.pos, !.last = "seekBackward"]
    /\ UNCHANGED <<uiVars, resolver, synced, lrc>>

\* the speaker streams the next buffer, up to the end of the stream
StreamBuffer ==
    /\ seek.pc = "playing"
    /\ seek.pos < seek.len
    /\ seek' = [seek EXCEPT
                    !.pos = IF @ + BufferSize > seek.len THEN seek.len
                            ELSE @ + BufferSize,
                    !.before = seek.pos, !.last = "stream"]
    /\ UNCHANGED <<uiVars, resolver, synced, lrc>>

\* a decoded stream of some length, its cursor at the start
InitSeek ==
    /\ InitUI([search |-> SearchPayloads, album |-> AlbumPayloads])
    /\ \E len \in TrackLengths :
          seek = [pc |-> "playing", len |-> len, pos |-> 0, before |-> 0,
                  last |-> "none"]
    /\ resolver = Off /\ synced = Off /\ lrc = Off

NextSeek == SeekForward \/ SeekBackward \/ StreamBuffer

SpecSeek == InitSeek /\ [][NextSeek]_vars

\* the cursor right after a seek: inside the track, and 5 seconds from where
\* it was unless that is outside the track
SeekLanded ==
    /\ 0 <= seek.pos /\ seek.pos < seek.len
    /\ seek.last = "seekForward"
          => seek.pos = IF seek.before + 5 * 44100 < seek.len
                        THEN seek.before + 5 * 44100 ELSE seek.len - 1
    /\ seek.last = "seekBackward"
          => seek.pos = IF seek.before - 5 * 44100 > 0
                        THEN seek.before - 5 * 44100 ELSE 0

\* C8: after any seek on a track of any length the cursor satisfies
\* 0 <= cursor < trackLength, having moved by exactly 5*44100 samples
\* forward or backward unless clamped to trackLength - 1 or to 0.
C8_SeekClamped ==
    seek.pc = "playing" /\ seek.last \in {"seekForward", "seekBackward"}
        => SeekLanded

\* C8, amended: the same on every track of a positive length; on a stream
\* of length 0 no cursor is inside the track, seekForward asks for position
\* -1, and both seeks leave the cursor at 0.
C8_SeekClampedOnNonEmpty ==
    seek.pc = "playing" /\ seek.last \in {"seekForward", "seekBackward"}
        => IF seek.len >= 1 THEN SeekLanded ELSE seek.pos = 0

\* a forward seek from near the end of a track was clamped
C8_Witness ==
    /\ seek.pc = "playing"
    /\ seek.last = "seekForward"
    /\ seek.len > 5 * 44100
    /\ seek.before > 0
    /\ seek.before + 5 * 44100 >= seek.len
    /\ seek.pos = seek.len - 1

(***************************************************************************)
(* The speaker's mutex: seekForward, seekBackward and                      *)
(* getCurrentPlaybackPosition step by step in Update's goroutine, and the  *)
(* speaker's goroutine pulling samples, each between speaker.Lock() and    *)
(* speaker.Unlock().  In seek, mu is the holder of the mutex, upd the      *)
(* position of Update's goroutine, spk that of the speaker's, read the     *)
(* value of seeker.Position() and newPos the local of that name, both 0   *)
(* outside the function that holds them.                                   *)
(***************************************************************************)
\* a speaker.Lock() that returns although the mutex is held
CanLock_Always == TRUE

\* speaker.Lock() returns only when no goroutine holds the mutex
CanLock == seek.mu = "free"

\* seekForward: speaker.Lock(); newPos := seeker.Position() + 5*44100 with
\* its clamp; seeker.Seek(newPos); speaker.Unlock()
seekForward ==
    /\ seek.pc = "locking"
    /\ \/ /\ seek.upd = "idle" /\ CanLock
          /\ seek' = [seek EXCEPT !.mu = "update", !.upd = "fwdLocked"]
       \/ /\ seek.upd = "fwdLocked"
          /\ seek' = [seek EXCEPT !.read = seek.pos,
                                  !.newPos = ForwardTarget(seek.pos, seek.len),
                                  !.upd = "fwdRead"]
       \/ /\ seek.upd = "fwdRead"
          /\ seek' = [seek EXCEPT !.pos = Seek(seek.pos, seek.len, seek.newPos),
                                  !.upd = "fwdSet"]
       \/ /\ seek.upd = "fwdSet"
          /\ seek' = [seek EXCEPT !.mu = "free", !.upd = "idle",
                                  !.read = 0, !.newPos = 0]
    /\ UNCHANGED <<uiVars, resolver, synced, lrc>>

\* seekBackward: the same with newPos := seeker.Position() - 5*44100
seekBackward ==
    /\ seek.pc = "locking"
    /\ \/ /\ seek.upd = "idle" /\ CanLock
          /\ seek' = [seek EXCEPT !.mu = "update", !.upd = "bwdLocked"]
       \/ /\ seek.upd = "bwdLocked"
          /\ seek' = [seek EXCEPT !.read = seek.pos,
                                  !.newPos = BackwardTarget(seek.pos),
                                  !.upd = "bwdRead"]
       \/ /\ seek.upd = "bwdRead"
          /\ seek' = [seek EXCEPT !.pos = Seek(seek.pos, seek.len, seek.newPos),
                                  !.upd = "bwdSet"]
       \/ /\ seek.upd = "bwdSet"
          /\ seek' = [seek EXCEPT !.mu = "free", !.upd = "idle",
                                  !.read = 0, !.newPos = 0]
    /\ UNCHANGED <<uiVars, resolver, synced, lrc>>

\* getCurrentPlaybackPosition: speaker.Lock(); pos := seeker.Position();
\* speaker.Unlock()
getCurrentPlaybackPosition ==
    /\ seek.pc = "locking"
    /\ \/ /\ seek.upd = "idle" /\ CanLock
          /\ seek' = [seek EXCEPT !.mu = "update", !.upd = "posLocked"]
       \/ /\ seek.upd = "posLocked"
          /\ seek' = [seek EXCEPT !.read = seek.pos, !.upd = "posRead"]
       \/ /\ seek.upd = "posRead"
          /\ seek' = [seek EXCEPT !.mu = "free", !.upd = "idle",
                                  !.read = 0, !.newPos = 0]
    /\ UNCHANGED <<uiVars, resolver, synced, lrc>>

\* the goroutine of speaker.Play's speaker: it takes the mutex, pulls the next
\* buffer from the stream, which advances the cursor, and gives the mutex back
SpeakerUpdate ==
    /\ seek.pc = "locking"
    /\ \/ /\ seek.spk = "idle" /\ CanLock
          /\ seek' = [seek EXCEPT !.mu = "speaker", !.spk = "locked"]
       \/ /\ seek.spk = "locked"
          /\ seek' = [seek EXCEPT
                          !.pos = IF @ + BufferSize > seek.len THEN seek.len
                                  ELSE @ + BufferSize,
                          !.spk = "streamed"]
       \/ /\ seek.spk = "streamed"
          /\ seek' = [seek EXCEPT !.mu = "free", !.spk = "idle"]
    /\ UNCHANGED <<uiVars, resolver, synced, lrc>>

\* a decoded stream of some length playing, its cursor at the start, and no
\* goroutine holding the mutex
InitLock ==
    /\ InitUI([search |-> SearchPayloads, album |-> AlbumPayloads])
    /\ \E len \in TrackLengths :
          seek = [pc |-> "locking", len |-> len, pos |-> 0, mu |-> "free",
                  upd |-> "idle", spk |-> "idle", read |-> 0, newPos |-> 0]
    /\ resolver = Off /\ synced = Off /\ lrc = Off

NextLock ==
    seekForward \/ seekBackward \/ getCurrentPlaybackPosition \/ SpeakerUpdate

SpecLock == InitLock /\ [][NextLock]_vars

\* Update's goroutine is between a speaker.Lock() and its speaker.Unlock()
UpdateInSection == seek.upd # "idle"

\* the speaker's goroutine is between its Lock and its Unlock
SpeakerInSection == seek.spk # "idle"

\* C27: every read and write of the decode cursor by seekForward,
\* seekBackward and getCurrentPlaybackPosition excludes the speaker's
\* goroutine advancing the cursor, and the read-modify-write of a seek is
\* atomic: the cursor a seek sets was computed from the cursor as it is
\* when it is set.
C27_CursorAccessExclusive ==
    seek.pc = "locking"
        => /\ ~(UpdateInSection /\ SpeakerInSection)
           /\ seek.upd \in {"fwdRead", "bwdRead", "posRead"}
                 => seek.pos = seek.read
           /\ seek.upd = "fwdSet"
                 => seek.pos = Seek(seek.read, seek.len,
                                    ForwardTarget(seek.read, seek.len))
           /\ seek.upd = "bwdSet"
                 => seek.pos = Seek(seek.read, seek.len,
                                    BackwardTarget(seek.read))

\* a seek that waited for the speaker: it read and set the cursor in the
\* middle of a track after the speaker had advanced it
C27_Witness ==
    /\ seek.pc = "locking"
    /\ seek.upd = "bwdSet"
    /\ seek.read > SeekStep
    /\ seek.pos = seek.read - SeekStep
    /\ seek.spk = "idle"

(***************************************************************************)
(* The lyric index: updateLyrics on a lyric track and a playback position. *)
(* A time.Duration is a number of tenths of a second.                      *)
(***************************************************************************)
\* lines of a lyric track
MaxLines == 3

\* the latest timestamp of a line, in tenths of a second
MaxStamp == 3

\* the lyric tracks parseLRC can return: ascending timestamps
RECURSIVE Ascending(_)
Ascending(stamps) ==
    Len(stamps) < 2 \/ (stamps[1] <= stamps[2] /\ Ascending(Tail(stamps)))
LyricTracks ==
    UNION { { l \in [1..n -> 0..MaxStamp] : Ascending(l) } : n \in 0..MaxLines }

\* getCurrentPlaybackPosition: float64(pos) / 44100.0 * float64(time.Second),
\* cut to a whole Duration
PositionToTime(pos) == (pos * 10) \div SampleRate

\* a loop's test that only takes the line whose timestamp is the position
Reached_Exactly(timestamp, currentTime) == timestamp = currentTime

\* the loop's test with the equal timestamp left out
Reached_Strictly(timestamp, currentTime) == timestamp < currentTime

\* l.Timestamp <= currentTime
Reached(timestamp, currentTime) == timestamp <= currentTime

\* for i, l := range lyrics { if ... { newIdx = i } else { break } }, from
\* line i (counted from 0) on
RECURSIVE ScanLyrics(_, _, _, _)
ScanLyrics(lyrics, currentTime, i, newIdx) ==
    IF i >= Len(lyrics) THEN newIdx
    ELSE IF Reached(lyrics[i + 1], currentTime)
         THEN ScanLyrics(lyrics, currentTime, i + 1, i)
         ELSE newIdx

\* an updateLyrics that clears the index when it has no position
UpdateLyrics_ClearsIndex ==
    /\ synced.pc = "playing"
    /\ IF Len(synced.lyrics) = 0
       THEN synced' = synced
       ELSE IF ~synced.valid
            THEN synced' = [synced EXCEPT !.currentLyricIndex = -1]
            ELSE synced' = [synced EXCEPT
                     !.currentLyricIndex =
                         ScanLyrics(synced.lyrics, PositionToTime(synced.pos), 0, -1),
                     !.fresh = TRUE, !.prev = synced.currentLyricIndex,
                     !.rewound = FALSE]
    /\ UNCHANGED <<uiVars, resolver, seek, lrc>>

\* case lyricTickMsg: m.updateLyrics()
UpdateLyrics ==
    /\ synced.pc = "playing"
    /\ IF Len(synced.lyrics) = 0 \/ ~synced.valid
       THEN synced' = synced
       ELSE synced' = [synced EXCEPT
                !.currentLyricIndex =
                    ScanLyrics(synced.lyrics, PositionToTime(synced.pos), 0, -1),
                !.fresh = TRUE, !.prev = synced.currentLyricIndex,
                !.rewound = FALSE]
    /\ UNCHANGED <<uiVars, resolver, seek, lrc>>

\* the speaker streams the next buffer
LyricsStreamBuffer ==
    /\ synced.pc = "playing"
    /\ synced.valid
    /\ ~synced.ctrlPaused
    /\ PositionToTime(synced.pos) <= MaxStamp
    /\ synced' = [synced EXCEPT !.pos = @ + BufferSize, !.fresh = FALSE]
    /\ UNCHANGED <<uiVars, resolver, seek, lrc>>

\* case "left": m.seekBackward()
LyricsSeekBackward ==
    /\ synced.pc = "playing"
    /\ synced.valid
    /\ synced' = [synced EXCEPT !.pos = BackwardTarget(@), !.fresh = FALSE,
                                !.rewound = TRUE]
    /\ UNCHANGED <<uiVars, resolver, seek, lrc>>

\* stopPlayback: m.playback.player = nil, the position is no longer valid
LyricsStop ==
    /\ synced.pc = "playing"
    /\ synced.valid
    /\ synced' = [synced EXCEPT !.valid = FALSE, !.ctrlPaused = TRUE,
                                !.fresh = FALSE]
    /\ UNCHANGED <<uiVars, resolver, seek, lrc>>

\* a togglePause that also rewinds the stream
togglePause_Rewinds(p) ==
    IF p.valid
    THEN [p EXCEPT !.isPaused = ~@, !.ctrlPaused = ~p.isPaused, !.pos = 0]
    ELSE p

\* togglePause on the session p: if ctrl != nil { m.playback.isPaused =
\* !m.playback.isPaused; ctrl.Paused = m.playback.isPaused }
togglePause(p) ==
    IF p.valid
    THEN [p EXCEPT !.isPaused = ~@, !.ctrlPaused = ~p.isPaused]
    ELSE p

\* case " ": m.togglePause()
LyricsTogglePause ==
    /\ synced.pc = "playing"
    /\ synced' = togglePause(synced)
    /\ UNCHANGED <<uiVars, resolver, seek, lrc>>

\* a session that plays, with any lyric track and the index of a fresh
\* session; fresh says that updateLyrics set the index for the position, prev
\* is the index it found there, and rewound that the stream was sought
\* backward since
InitLyrics ==
    /\ InitUI([search |-> SearchPayloads, album |-> AlbumPayloads])
    /\ \E lyrics \in LyricTracks, pos \in {0, BufferSize - 1} :
          synced = [pc |-> "playing", lyrics |-> lyrics, pos |-> pos,
                    valid |-> TRUE, currentLyricIndex |-> -1, fresh |-> FALSE,
                    isPaused |-> FALSE, ctrlPaused |-> FALSE,
                    prev |-> -1, rewound |-> FALSE]
    /\ resolver = Off /\ seek = Off /\ lrc = Off

NextLyrics ==
    \/ UpdateLyrics \/ LyricsStreamBuffer \/ LyricsSeekBackward \/ LyricsStop
    \/ LyricsTogglePause

SpecLyrics == InitLyrics /\ [][NextLyrics]_vars

\* C9: for a non-empty lyric track sorted by timestamp and an elapsed time
\* t, updateLyrics sets the index to the greatest i (from 0) whose timestamp
\* is at most t, or to -1 when there is none; lines that share a timestamp
\* included.
C9_GreatestLineNotAfter ==
    synced.pc = "playing" /\ synced.fresh
        => LET t == (synced.pos * 10) \div 44100
               notAfter == { i \in 1..Len(synced.lyrics) : synced.lyrics[i] <= t }
           IN  /\ notAfter = {} => synced.currentLyricIndex = -1
               /\ notAfter # {} =>
                    /\ synced.currentLyricIndex + 1 \in notAfter
                    /\ \A i \in notAfter : i <= synced.currentLyricIndex + 1

\* the position is on a timestamp that two lines share, and the index is on
\* the second of them
C9_Witness ==
    /\ synced.pc = "playing" /\ synced.fresh
    /\ synced.lyrics = <<1, 2, 2>>
    /\ (synced.pos * 10) \div 44100 = 2
    /\ synced.currentLyricIndex = 2

\* C18: togglePause on a session flips the paused flag and changes nothing
\* else: the decode cursor, the lyric track, the lyric index and the UI
\* state stay as they are, and a second togglePause restores the flag.
C18_TogglePauseFlipsOnly ==
    [][LyricsTogglePause /\ synced.valid
          => /\ synced'.isPaused = ~synced.isPaused
             /\ synced'.pos = synced.pos
             /\ synced'.lyrics = synced.lyrics
             /\ synced'.currentLyricIndex = synced.currentLyricIndex
             /\ UNCHANGED uiVars
             /\ togglePause(synced').isPaused = synced.isPaused
             /\ togglePause(synced').pos = synced.pos]_vars

\* the session was paused in the middle of the track, on a lyric line
C18_Witness ==
    /\ synced.pc = "playing" /\ synced.valid
    /\ synced.isPaused /\ synced.ctrlPaused
    /\ synced.pos > 0
    /\ synced.currentLyricIndex >= 0

\* the index updateLyrics computes for the lyric track at time t
IndexAt(t) == ScanLyrics(synced.lyrics, t, 0, -1)

\* C32: while a session plays and no backward seek is issued, the lyric
\* index recomputed on successive ticks is non-decreasing, and for times
\* t1 <= t2 the index computed for t1 is at most the index computed for t2.
C32_IndexNonDecreasing ==
    /\ [][UpdateLyrics /\ synced.valid /\ ~synced.rewound
            => synced'.currentLyricIndex >= synced.currentLyricIndex]_vars
    /\ [](synced.pc = "playing"
            => \A t1, t2 \in 0..(MaxStamp + 1) :
                  t1 <= t2 => IndexAt(t1) <= IndexAt(t2))

\* a tick found the index on the first line, the stream went on, and the
\* next tick moved the index to the third line
C32_Witness ==
    /\ synced.pc = "playing" /\ synced.fresh
    /\ ~synced.rewound
    /\ synced.prev = 0
    /\ synced.currentLyricIndex = 2
    /\ synced.lyrics[1] < synced.lyrics[3]

\* C33: a lyric tick is advisory only: updateLyrics changes nothing but the
\* current lyric index (the decode cursor, the paused flags, the lyric
\* track, the session handles and the UI state stay as they are), and with
\* no lyric track or no valid position it leaves the index as well.
C33_TickOnlySetsIndex ==
    [][UpdateLyrics
          => /\ synced'.pos = synced.pos
             /\ synced'.isPaused = synced.isPaused
             /\ synced'.ctrlPaused = synced.ctrlPaused
             /\ synced'.valid = synced.valid
             /\ synced'.lyrics = synced.lyrics
             /\ UNCHANGED uiVars
             /\ Len(synced.lyrics) = 0 \/ ~synced.valid
                   => synced'.currentLyricIndex = synced.currentLyricIndex]_vars

\* the session was stopped on a lyric line after the stream had moved on: a
\* tick can be handled and leaves this state as it is
C33_Witness ==
    /\ synced.pc = "playing"
    /\ ~synced.valid
    /\ synced.currentLyricIndex >= 1
    /\ PositionToTime(synced.pos) > synced.lyrics[synced.currentLyricIndex + 1]
    /\ ENABLED (UpdateLyrics /\ UNCHANGED vars)

(***************************************************************************)
(* parseLRC on a synced-lyrics text.  A time.Duration is a number of       *)
(* hundredths of a second; the texts carry at most two fraction digits.    *)
(***************************************************************************)
\* lines of a synced-lyrics text
MaxLrcLines == 3

\* time.Minute and time.Second
Minute == 6000
Second == 100

\* \d
Digits == {"0", "1", "2", "3", "4", "5", "6", "7", "8", "9"}

DigitValue(c) ==
    CASE c = "0" -> 0 [] c = "1" -> 1 [] c = "2" -> 2 [] c = "3" -> 3
      [] c = "4" -> 4 [] c = "5" -> 5 [] c = "6" -> 6 [] c = "7" -> 7
      [] c = "8" -> 8 [] c = "9" -> 9

\* the lines the texts are made of: tagged lines out of order, two lines
\* with one timestamp, a tag without fraction, a line with two tags after a
\* prefix, a metadata tag, plain text and the empty line
LrcLines ==
    { <<"[", "0", ":", "2", ".", "5", "]", "b">>,
      <<"[", "0", ":", "1", ".", "5", "0", "]", " ", "a">>,
      <<"[", "1", ":", "0", ".", "0", "]", "c">>,
      <<"[", "0", ":", "1", ".", "5", "]", "d">>,
      <<"[", "0", ":", "3", "]", "e">>,
      <<"x", "[", "0", ":", "0", ".", "5", "]", "[", "0", ":", "9", ".", "9", "]">>,
      <<"[", "a", "r", ":", "x", "]">>,
      <<"h", "i">>,
      <<>> }

LrcTexts ==
    { Join(ls, <<"\n">>) :
        ls \in UNION { [1..n -> LrcLines] : n \in 0..MaxLrcLines } }

\* strings.Split(s, "\n")
RECURSIVE Split(_)
Split(str) ==
    LET breaks == { i \in 1..Len(str) : str[i] = "\n" } IN
    IF breaks = {} THEN <<str>>
    ELSE LET b == CHOOSE i \in breaks : \A j \in breaks : i <= j
         IN  <<SubSeq(str, 1, b - 1)>> \o Split(SubSeq(str, b + 1, Len(str)))

\* the end of the longest run of digits that starts at i (i - 1 if none)
RECURSIVE DigitsEnd(_, _)
DigitsEnd(str, i) ==
    IF i <= Len(str) /\ str[i] \in Digits THEN DigitsEnd(str, i + 1) ELSE i - 1

At(str, i, c) == i <= Len(str) /\ str[i] = c

\* a match of \[(\d+):(\d+\.\d+)\](.*) that starts at i: the submatches, or
\* <<>> when there is none
MatchAt(str, i) ==
    IF ~At(str, i, "[") THEN <<>>
    ELSE LET a == DigitsEnd(str, i + 1) IN
    IF a = i \/ ~At(str, a + 1, ":") THEN <<>>
    ELSE LET b == DigitsEnd(str, a + 2) IN
    IF b = a + 1 \/ ~At(str, b + 1, ".") THEN <<>>
    ELSE LET c == DigitsEnd(str, b + 2) IN
    IF c = b + 1 \/ ~At(str, c + 1, "]") THEN <<>>
    ELSE << SubSeq(str, i, Len(str)),
            SubSeq(str, i + 1, a),
            SubSeq(str, a + 2, c),
            SubSeq(str, c + 2, Len(str)) >>

\* re.FindStringSubmatch(text): the leftmost match
FindStringSubmatch(str) ==
    LET starts == { i \in 1..Len(str) : MatchAt(str, i) # <<>> } IN
    IF starts = {} THEN <<>>
    ELSE MatchAt(str, CHOOSE i \in starts : \A j \in starts : i <= j)

\* strconv.Atoi on a run of digits
RECURSIVE Atoi(_)
Atoi(str) ==
    IF str = <<>> THEN 0
    ELSE 10 * Atoi(SubSeq(str, 1, Len(str) - 1)) + DigitValue(str[Len(str)])

\* time.Duration(sec * float64(time.Second)) for sec = ParseFloat of
\* digits "." digits
SecondsToDuration(str) ==
    LET dot == CHOOSE i \in 1..Len(str) : str[i] = "."
        frac == SubSeq(str, dot + 1, Len(str)) \o <<"0", "0">>
    IN  Atoi(SubSeq(str, 1, dot - 1)) * Second + Atoi(SubSeq(frac, 1, 2))

\* the loop of parseLRC: one LyricLine per line that matches
RECURSIVE Scan(_)
Scan(scanner) ==
    IF scanner = <<>> THEN <<>>
    ELSE LET matches == FindStringSubmatch(Head(scanner)) IN
         (IF Len(matches) = 4
          THEN << [Timestamp |-> Atoi(matches[2]) * Minute
                                   + SecondsToDuration(matches[3]),
                   Text |-> TrimSpace(matches[4])] >>
          ELSE <<>>) \o Scan(Tail(scanner))

\* the lines as appended, not sorted
SortSlice_Skipped(lines) == { lines }

\* sort.Slice(lines, less) with less(i, j) = lines[i].Timestamp <
\* lines[j].Timestamp: the sort is not stable, so every order of the lines
\* that ascends by timestamp is a result
SortSlice(lines) ==
    LET n == Len(lines)
        perms == { p \in [1..n -> 1..n] : \A i \in 1..n : \E j \in 1..n : p[j] = i }
    IN  { [i \in 1..n |-> lines[p[i]]] : p \in
            { q \in perms : \A i \in 1..(n - 1) :
                ~(lines[q[i + 1]].Timestamp < lines[q[i]].Timestamp) } }

\* parseLRC(lrcText)
ParseLRC ==
    /\ lrc.pc = "call"
    /\ \E lines \in SortSlice(Scan(Split(lrc.lrcText))) :
          lrc' = [lrc EXCEPT !.pc = "returned", !.lines = lines]
    /\ UNCHANGED <<uiVars, resolver, seek, synced>>

InitLRC ==
    /\ InitUI([search |-> SearchPayloads, album |-> AlbumPayloads])
    /\ \E lrcText \in LrcTexts :
          lrc = [pc |-> "call", lrcText |-> lrcText, lines |-> <<>>]
    /\ resolver = Off /\ seek = Off /\ synced = Off

NextLRC == ParseLRC

SpecLRC == InitLRC /\ [][NextLRC]_vars

\* the lines of a text: the stretches between its line breaks, as <<first,
\* last>> positions (last = first - 1 for an empty line)
InputLines(str) ==
    { <<a, b>> \in (1..(Len(str) + 1)) \X (0..Len(str)) :
        /\ b >= a - 1
        /\ a = 1 \/ str[a - 1] = "\n"
        /\ b = Len(str) \/ str[b + 1] = "\n"
        /\ \A i \in a..b : str[i] # "\n" }

\* the line carries a [minutes:seconds.fraction] tag
CarriesTag(str, a, b) ==
    \E i \in a..b : str[i] = "[" /\
    \E j \in (i + 2)..b : str[j] = ":" /\
    \E k \in (j + 2)..b : str[k] = "." /\
    \E l \in (k + 2)..b : str[l] = "]" /\
       \A d \in ((i + 1)..(j - 1)) \cup ((j + 1)..(k - 1)) \cup ((k + 1)..(l - 1)) :
          str[d] \in Digits

\* C10: for every input text the lines parseLRC returns ascend by
\* timestamp, whatever the order of the tagged lines in the text, and there
\* is exactly one entry per input line that carries a
\* [minutes:seconds.fraction] tag; the other lines are dropped.
C10_SortedOnePerTaggedLine ==
    lrc.pc = "returned"
        => /\ \A i, j \in 1..Len(lrc.lines) :
                i < j => lrc.lines[i].Timestamp <= lrc.lines[j].Timestamp
           /\ Len(lrc.lines) =
                Cardinality({ l \in InputLines(lrc.lrcText) :
                                CarriesTag(lrc.lrcText, l[1], l[2]) })

\* a text whose tagged lines are out of order, with an untagged line
\* between them
C10_Witness ==
    /\ lrc.pc = "returned"
    /\ lrc.lrcText = Join(<< <<"[", "0", ":", "2", ".", "5", "]", "b">>,
                             <<"h", "i">>,
                             <<"[", "0", ":", "1", ".", "5", "0", "]", " ", "a">> >>,
                          <<"\n">>)
    /\ lrc.lines = << [Timestamp |-> 150, Text |-> <<"a">>],
                      [Timestamp |-> 250, Text |-> <<"b">>] >>

(***************************************************************************)
(* The text normalizer of the lyric search: cleanString and cleanArtist.   *)
(***************************************************************************)
\* pieces a normalizer input is made of
MaxPieces == 3

\* reBrackets.ReplaceAllString(s, ""): \[[^\]]*\]|\([^)]*\), leftmost matches
RECURSIVE RemoveBrackets(_)
RemoveBrackets(str) ==
    IF str = <<>> THEN <<>>
    ELSE LET close == IF str[1] = "[" THEN "]" ELSE ")"
             ends == { i \in 2..Len(str) : str[i] = close }
         IN  IF str[1] \in {"[", "("} /\ ends # {}
             THEN RemoveBrackets(SubSeq(str,
                    (CHOOSE i \in ends : \A j \in ends : i <= j) + 1, Len(str)))
             ELSE <<str[1]>> \o RemoveBrackets(Tail(str))

\* ReplaceAllString(s, "") for a literal word, leftmost matches that do not
\* overlap; fold says that the match ignores the case, as under (?i)
RECURSIVE RemoveAll(_, _, _)
RemoveAll(str, word, fold) ==
    IF Len(str) < Len(word) THEN str
    ELSE LET head == SubSeq(str, 1, Len(word)) IN
         IF (IF fold THEN ToLower(head) ELSE head) = word
         THEN RemoveAll(SubSeq(str, Len(word) + 1, Len(str)), word, fold)
         ELSE <<str[1]>> \o RemoveAll(Tail(str), word, fold)

\* the common suffixes, in the order of the loop
suffixes ==
    << <<"o", "f", "f", "i", "c", "i", "a", "l", " ", "m", "u", "s", "i", "c", " ", "v", "i", "d", "e", "o">>,
       <<"o", "f", "f", "i", "c", "i", "a", "l", " ", "v", "i", "d", "e", "o">>,
       <<"o", "f", "f", "i", "c", "i", "a", "l", " ", "a", "u", "d", "i", "o">>,
       <<"m", "u", "s", "i", "c", " ", "v", "i", "d", "e", "o">>,
       <<"l", "y", "r", "i", "c", " ", "v", "i", "d", "e", "o">>,
       <<"l", "y", "r", "i", "c", "s">>,
       <<"o", "f", "f", "i", "c", "i", "a", "l">>,
       <<"v", "i", "d", "e", "o">>,
       <<"a", "u", "d", "i", "o">>,
       <<"f", "u", "l", "l", " ", "s", "o", "n", "g">>,
       <<"h", "d">>,
       <<"4", "k">>,
       <<"7", "2", "0", "p">>,
       <<"1", "0", "8", "0", "p">> >>

\* for _, suffix := range suffixes { s = re.ReplaceAllString(s, "") }
RECURSIVE RemoveSuffixes(_, _)
RemoveSuffixes(str, k) ==
    IF k > Len(suffixes) THEN str
    ELSE RemoveSuffixes(RemoveAll(str, suffixes[k], TRUE), k + 1)

\* reBy.ReplaceAllString(s, ""): (?i)\s+by\s+.*$ cuts the string at the
\* leftmost white space that a run of white space, "by" and white space follow
RECURSIVE SpacesEnd(_, _)
SpacesEnd(str, i) ==
    IF i <= Len(str) /\ str[i] = " " THEN SpacesEnd(str, i + 1) ELSE i - 1
RemoveBy(str) ==
    LET starts == { i \in 1..Len(str) :
                      /\ str[i] = " "
                      /\ LET e == SpacesEnd(str, i) IN
                         /\ e + 3 <= Len(str)
                         /\ ToLower(SubSeq(str, e + 1, e + 2)) = <<"b", "y">>
                         /\ str[e + 3] = " " }
    IN  IF starts = {} THEN str
        ELSE SubSeq(str, 1, (CHOOSE i \in starts : \A j \in starts : i <= j) - 1)

\* cleanString(s)
cleanString(str) ==
    TrimSpace(RemoveAll(RemoveAll(RemoveBy(RemoveSuffixes(RemoveBrackets(str), 1)),
                                  <<"f", "t", ".">>, FALSE),
                        <<"f", "e", "a", "t", ".">>, FALSE))

\* cleanArtist(s)
cleanArtist(str) ==
    TrimSpace(TrimSuffix(TrimSuffix(TrimSuffix(str,
        <<" ", "-", " ", "T", "o", "p", "i", "c">>), <<"V", "E", "V", "O">>), <<"V", "e", "v", "o">>))

\* the inputs: up to MaxPieces pieces in a row
RECURSIVE Concat(_)
Concat(strs) == IF strs = <<>> THEN <<>> ELSE Head(strs) \o Concat(Tail(strs))
PiecesOf(fn) ==
    IF fn = "cleanString"
    THEN { <<"(">>, <<")">>, <<"x">>, <<"h", "d">>, <<"v", "i">>, <<"d", "e", "o">>, <<"f", "t", ".">>, <<" ", "b", "y", " ">>, <<" ">>, <<"H", "D">>, <<"[">>, <<"]">> }
    ELSE { <<"X">>, <<" ", "-", " ", "T", "o", "p", "i", "c">>, <<"V", "E", "V", "O">>, <<"V", "e", "v", "o">>, <<" ">> }
CleanInputs(fn) ==
    { Concat(ps) : ps \in UNION { [1..n -> PiecesOf(fn)] : n \in 0..MaxPieces } }

\* one more call of the normalizer on its own result
Clean ==
    /\ lrc.pc = "clean"
    /\ Len(lrc.out) < 2
    /\ LET x == IF lrc.out = <<>> THEN lrc.x ELSE lrc.out[Len(lrc.out)] IN
       lrc' = [lrc EXCEPT !.out = Append(@,
                  IF lrc.fn = "cleanString" THEN cleanString(x) ELSE cleanArtist(x))]
    /\ UNCHANGED <<uiVars, resolver, seek, synced>>

InitClean ==
    /\ InitUI([search |-> SearchPayloads, album |-> AlbumPayloads])
    /\ \E fn \in {"cleanString", "cleanArtist"} : \E x \in CleanInputs(fn) :
          lrc = [pc |-> "clean", fn |-> fn, x |-> x, out |-> <<>>]
    /\ resolver = Off /\ seek = Off /\ synced = Off

SpecClean == InitClean /\ [][Clean]_vars

\* C11: the normalizer is idempotent for all inputs: cleanString of
\* cleanString(x) is cleanString(x) and cleanArtist of cleanArtist(x) is
\* cleanArtist(x).
C11_NormalizerIdempotent ==
    lrc.pc = "clean" /\ Len(lrc.out) = 2 => lrc.out[1] = lrc.out[2]

(***************************************************************************)
(* Properties of stopPlayback, getCurrentPlaybackPosition and of a failed  *)
(* start.                                                                  *)
(***************************************************************************)
\* the steps of Update that are a call of stopPlayback and nothing else
StopStep == KeyS

C13_StopTearsDown ==
    [][StopStep /\ playback.player # 0
          => /\ playback'.player = 0
             /\ playback'.cmd = 0
             /\ playback'.playingSong = <<>>
             /\ playback'.lyrics = NoLyrics
             /\ playback'.currentLyricIndex = -1]_vars

\* getCurrentPlaybackPosition's second result: m.playback.player is a
\* *beep.Ctrl that is not nil (its streamer, an mp3 decoder, is a
\* beep.StreamSeeker)
PositionValid == playback.player # 0

\* C14: getCurrentPlaybackPosition returns valid = true only while a session
\* is loaded and playing or paused: never before the first start, after
\* stopPlayback, after a failed start or after the stream ended and stopMsg
\* was sent.
C14_PositionValidOnlyWhileActive ==
    PositionValid =>
        sess[playback.player].pc \in {"initState", "sendPlay", "waitDone"}

\* C15: when a step of runInternalPlayback fails, the UI goes to the error
\* state and nothing of the attempt remains: its ffmpeg process does not
\* run, and neither its process handle nor its player handle is installed.
C15_FailedStartLeavesNothing ==
    [][\A s \in Sessions :
          RecvErrMsg(s)
              => /\ state' = "stateError"
                 /\ sess'[s].proc # "running"
                 /\ playback'.cmd # s
                 /\ playback'.player # s]_vars

\* C25: a failed or empty lyric fetch never interrupts playback: its message
\* only sets the lyric track to the "no synced lyrics" value, which is not
\* the absent (not yet fetched) value, and leaves the UI state, the paused
\* flag, the session handles and the goroutines as they are.
C25_NoLyricsOnlySetsLyrics ==
    [][\A s \in Sessions :
          RecvNoLyrics(s)
              => /\ playback'.lyrics.kind = "none"
                 /\ playback'.lyrics # NoLyrics
                 /\ playback' = [playback EXCEPT !.lyrics = playback'.lyrics]
                 /\ state' = state
                 /\ sess' = sess]_vars

\* the session plays on after its lyric fetch failed
C25_Witness ==
    /\ state = "statePlaying"
    /\ playback.player # 0
    /\ playback.lyrics = [kind |-> "none", of |-> playback.player]
    /\ sess[playback.player].pc = "waitDone"
    /\ ~sess[playback.player].paused

\* C28: the player handle and the process handle of the playback state are
\* single-owner: only Update installs or replaces them, so no step of a
\* playback goroutine changes either.
C28_HandlesWrittenByUpdateOnly ==
    [][\A s \in Sessions :
          RIPLookup(s) \/ RIPStoreCmd(s) \/ RIPInstallPlayer(s)
                \/ RIPInitState(s) \/ RIPDone(s)
              => /\ playback'.cmd = playback.cmd
                 /\ playback'.player = playback.player]_vars

\* the list views
ListViews == {"stateSelecting", "stateViewingAlbumTracks"}

\* C29: after key s was handled in the Playing state the UI state is no
\* longer Playing but a list view.
C29_StopKeyReturnsToList ==
    [][KeyS /\ state = "statePlaying" => state' \in ListViews]_vars

C31_AlbumsAreNotPlayed ==
    [][/\ \A i \in 1..Len(list) :
            PressPSelecting(i) /\ list[i].isAlbum
              => UNCHANGED <<state, nsess, sess, playback>>
       /\ \A i \in 1..Len(AlbumListItems) :
            PressPAlbum(i) /\ AlbumListItems[i].isAlbum
              => UNCHANGED <<state, nsess, sess, playback>>]_vars

\* the album view of a browsed album, whose header is under the cursor, with
\* a search list behind it that holds an album item: key p on the header can
\* be pressed and leaves this state as it is
C31_Witness ==
    /\ ~quitting
    /\ state = "stateViewingAlbumTracks"
    /\ albumListValid
    /\ AlbumListItems[1].isAlbum
    /\ \E i \in 1..Len(list) : list[i].isAlbum
    /\ ENABLED (PressPAlbum(1) /\ UNCHANGED vars)

\* a session that produces audio: its controller is the installed one, was
\* handed to the speaker, is not paused, and its stream has not ended
ProducesAudio(s) ==
    /\ playback.player = s
    /\ sess[s].pc = "waitDone"
    /\ ~sess[s].paused

\* C34: whenever a playback session produces audio the UI state is Loading
\* or Playing: no message of an earlier session moves the UI out of them.
C34_AudibleSessionIsShown ==
    Alive /\ (\E s \in Sessions : ProducesAudio(s))
        => state \in {"stateLoading", "statePlaying"}

\* C35: after every Update step the UI is in the album track view only if
\* the resolved album track list is non-empty; q out of a playback that was
\* started from the search list does not leave the UI in that view.
C35_AlbumViewHasTracks ==
    Alive /\ state = "stateViewingAlbumTracks" => Len(albumTracks) > 0

(***************************************************************************)
(* The cover goroutine of a playback goroutine, for a user who searches,   *)
(* plays and stops.                                                        *)
(***************************************************************************)
\* go func() { if item.thumb != "" { downloadAndCacheThumb; convertImageToASCII;
\* m.playback.albumCover = asciiArt; m.playback.coverPath = coverPath;
\* resizeImage; m.playback.resizedCoverPath = resizedPath;
\* m.playback.kittyImage = "ready"; Send(imageReadyMsg) } }(): the goroutine
\* ends without a write (no thumbnail, a failed download, empty art), after
\* the first two writes, or goes on to the Send after all four
CoverWrite(s) ==
    /\ Alive
    /\ sess[s].cover = "fetch"
    /\ \/ /\ sess' = [sess EXCEPT ![s].cover = "none"]
          /\ UNCHANGED playback
       \/ /\ sess' = [sess EXCEPT ![s].cover = "none"]
          /\ playback' = [playback EXCEPT !.albumCover = "art",
                                          !.coverPath = "temp_cover"]
       \/ /\ sess' = [sess EXCEPT ![s].cover = "sendImage"]
          /\ playback' = [playback EXCEPT !.albumCover = "art",
                                          !.coverPath = "temp_cover",
                                          !.resizedCoverPath = "temp_cover_resized",
                                          !.kittyImage = "ready"]
    /\ UIUnchanged /\ UNCHANGED lyr

\* m.program.Send(imageReadyMsg{...}) and Update's case imageReadyMsg
RecvImageReady(s) ==
    /\ Alive
    /\ sess[s].cover = "sendImage"
    /\ sess' = [sess EXCEPT ![s].cover = "none"]
    /\ IF state = "statePlaying"
       THEN playback' = [playback EXCEPT !.kittyImage = "temp_cover_resized"]
       ELSE UNCHANGED playback
    /\ UIUnchanged /\ UNCHANGED lyr

NextCover ==
    \/ KeyQ \/ KeyPSelecting \/ KeyS \/ KeyEnterInput \/ SearchAnswers
    \/ \E s \in Sessions :
          \/ RIPLookup(s) \/ RIPStoreCmd(s)
          \/ RIPInstallPlayer(s) \/ RIPInitState(s)
          \/ RecvPlayMsg(s)
          \/ RIPDone(s) \/ RecvStopMsg(s) \/ RecvErrMsg(s)
          \/ CoverWrite(s) \/ RecvImageReady(s)

SpecCover == Init /\ [][NextCover]_vars

\* C26: a cover-art result that completes after its session was stopped or
\* replaced is discarded: the cover goroutine of a session that is not the
\* installed one writes none of the album cover, cover path and image
\* fields of the playback state.
C26_LateCoverDiscarded ==
    [][\A s \in Sessions :
          (CoverWrite(s) \/ RecvImageReady(s)) /\ playback.player # s
              => /\ playback'.albumCover = playback.albumCover
                 /\ playback'.coverPath = playback.coverPath
                 /\ playback'.resizedCoverPath = playback.resizedCoverPath
                 /\ playback'.kittyImage = playback.kittyImage]_vars

(***************************************************************************)
(* The lyric ticks: the tea.Tick of playMsg and of every lyricTickMsg that *)
(* was handled in the Playing state.                                      *)
(***************************************************************************)
\* m.updateLyrics() on the playback state: nothing without lines or without
\* a player; the one line of noLyricsMsg has timestamp 0, which every
\* position has reached; a fetched track gives the index of its position
UpdatedIndexes ==
    IF playback.lyrics.kind = "nil" \/ playback.player = 0
    THEN {playback.currentLyricIndex}
    ELSE IF playback.lyrics.kind = "none" THEN {0}
         ELSE -1..(MaxLines - 1)

\* the timer of session s's tick chain fires and Update handles the
\* lyricTickMsg: in statePlaying m.updateLyrics() and the next tea.Tick,
\* in any other state nothing, and the chain ends
RecvLyricTick(s) ==
    /\ Alive
    /\ sess[s].tick = "pending"
    /\ IF state = "statePlaying"
       THEN /\ \E idx \in UpdatedIndexes :
                  playback' = [playback EXCEPT !.currentLyricIndex = idx]
            /\ UNCHANGED sess
       ELSE /\ sess' = [sess EXCEPT ![s].tick = "none"]
            /\ UNCHANGED playback
    /\ UIUnchanged /\ UNCHANGED lyr

NextTick ==
    \/ KeyQ \/ KeyPSelecting \/ KeyS \/ KeyEnterInput \/ SearchAnswers
    \/ \E s \in Sessions :
          \/ RIPLookup(s) \/ RIPStoreCmd(s)
          \/ RIPInstallPlayer(s) \/ RIPInitState(s)
          \/ RecvPlayMsg(s)
          \/ RIPDone(s) \/ RecvStopMsg(s) \/ RecvErrMsg(s)
          \/ RecvLyricsFetched(s) \/ RecvNoLyrics(s)
          \/ RecvLyricTick(s)

SpecTick == Init /\ [][NextTick]_vars

\* the tick chains that have a lyricTickMsg pending
PendingTicks == { s \in Sessions : sess[s].tick = "pending" }

\* C37: at most one lyric tick is pending at any time: stopping a session
\* and starting another never leaves two tick chains running.
C37_OneTickPending == Cardinality(PendingTicks) <= 1

(***************************************************************************)
(* Progress of the playback goroutines.  The scheduler runs every          *)
(* goroutine that can take a step, a stream that is played ends, and the   *)
(* event loop receives every message sent to it; nothing is assumed of the *)
(* keys, of the searches, of the download and of the lyric goroutines.     *)
(***************************************************************************)
\* the program of a user who searches, plays, pauses, stops and quits
NextLive ==
    \/ KeyCtrlC \/ KeyQ \/ KeyPSelecting \/ KeySpace \/ KeyS
    \/ KeyEnterInput \/ SearchAnswers
    \/ \E s \in Sessions :
          \/ RIPLookup(s) \/ RIPStoreCmd(s)
          \/ RIPInstallPlayer(s) \/ RIPInitState(s)
          \/ RecvPlayMsg(s)
          \/ RIPDone(s) \/ RecvStopMsg(s) \/ RecvErrMsg(s)
          \/ RecvLyricsFetched(s) \/ RecvNoLyrics(s)

SpecLive ==
    /\ Init
    /\ [][NextLive]_vars
    /\ \A s \in Sessions :
          /\ WF_vars(RIPLookup(s))
          /\ WF_vars(RIPStoreCmd(s))
          /\ WF_vars(RIPInstallPlayer(s))
          /\ WF_vars(RIPInitState(s))
          /\ WF_vars(RecvPlayMsg(s))
          /\ WF_vars(RIPDone(s))
          /\ WF_vars(RecvStopMsg(s))
          /\ WF_vars(RecvErrMsg(s))

\* C16: after stopPlayback on a playing session, the runInternalPlayback
\* goroutine that waits for the end of playback eventually returns.
C16_StoppedGoroutineReturns ==
    \A s \in Sessions :
        (sess[s].pc = "waitDone" /\ sess[s].paused /\ playback.player # s)
            ~> (sess[s].pc # "waitDone")

\* C17: playback never waits on lyrics: a session that acquired its stream
\* reaches the Playing state with its audio output started while its lyric
\* fetch, launched and not awaited, has not completed (or the program has
\* ended).
C17_PlaysWithoutLyrics ==
    \A s \in Sessions :
        (sess[s].pc = "installPlayer")
            ~> \/ /\ sess[s].pc = "waitDone"
                  /\ state = "statePlaying"
                  /\ lyr[s] = "fetch"
               \/ ~Alive

\* the session plays, its handle installed, while its lyric fetch is still
\* out
C17_Witness ==
    \E s \in Sessions :
        /\ sess[s].pc = "waitDone"
        /\ state = "statePlaying"
        /\ lyr[s] = "fetch"
        /\ playback.player = s
        /\ playback.lyrics = NoLyrics

\* the same program, where the lyric goroutines come to their Send as well:
\* the calls of fetchLyrics return
SpecLyricLive ==
    /\ SpecLive
    /\ \A s \in Sessions : WF_vars(RecvLyricsFetched(s) \/ RecvNoLyrics(s))

\* C36: after a session reached the Playing state its lyric fetch is
\* eventually delivered, the delivery sets the lyric state to the fetched
\* track or to the no-synced-lyrics value of that session, and a lyric
\* state that was set for a session is only cleared by the initialisation
\* of another session (or by the end of the program), never by its own.
C36_LyricsSetAndKept ==
    /\ \A s \in Sessions : (lyr[s] = "fetch") ~> (lyr[s] = "none")
    /\ [][\A s \in Sessions :
            /\ (RecvLyricsFetched(s) \/ RecvNoLyrics(s))
                  => /\ playback'.lyrics.kind \in {"synced", "none"}
                     /\ playback'.lyrics.of = s
            /\ (/\ playback.lyrics.of = s
                /\ playback.lyrics.kind # "nil"
                /\ playback'.lyrics.kind = "nil")
                  => \/ quitting'
                     \/ \E t \in Sessions \ {s} : RIPInitState(t)]_vars

\* the session plays and its fetched lyric track is the lyric state
C36_Witness ==
    \E s \in Sessions :
        /\ sess[s].pc = "waitDone" /\ ~sess[s].paused
        /\ state = "statePlaying"
        /\ playback.player = s
        /\ lyr[s] = "none"
        /\ playback.lyrics = [kind |-> "synced", of |-> s]

(***************************************************************************)
(* fetchLyrics: the strategies of the lyric search.  An answer of the      *)
(* LRCLIB API is a lyric track or an error.                                *)
(***************************************************************************)
\* the titles and the artist of the tracks, and what a call can return
FetchTitles ==
    { <<"x", " ", "-", " ", "y">>, <<"x", "y">>, <<"x", "-", "y">>,
      <<"x", " ", "-", " ", "y", " ", "-", " ", "z">> }
FetchArtist == <<"X", "V", "E", "V", "O">>
FetchAnswers ==
    { [ok |-> TRUE, lyrics |-> "A"], [ok |-> TRUE, lyrics |-> "B"],
      [ok |-> FALSE, lyrics |-> "transport"], [ok |-> FALSE, lyrics |-> "status"],
      [ok |-> FALSE, lyrics |-> "no synced lyrics"] }

\* strings.SplitN(title, " - ", 2)
SplitN2(title) ==
    LET sep == <<" ", "-", " ">>
        at == { i \in 1..(Len(title) - 2) : SubSeq(title, i, i + 2) = sep }
    IN  IF at = {} THEN <<title>>
        ELSE LET i == CHOOSE k \in at : \A j \in at : k <= j
             IN  << SubSeq(title, 1, i - 1), SubSeq(title, i + 3, Len(title)) >>

\* the call of a strategy: its function and its arguments
StrategyCall(strategy, title, artist) ==
    CASE strategy = 1 ->
            [fn |-> "trySearch",
             args |-> << cleanArtist(artist) \o <<" ">> \o cleanString(title) >>]
      [] strategy = 2 ->
            [fn |-> "trySearch",
             args |-> << cleanArtist(SplitN2(title)[1]) \o <<" ">>
                            \o cleanString(SplitN2(title)[Len(SplitN2(title))]) >>]
      [] strategy = 3 ->
            [fn |-> "tryFetch", args |-> << cleanString(title), cleanArtist(artist), 0 >>]

\* a search that never tries the split values
StrategyAfter_NoSplit(strategy, title) ==
    IF strategy = 1 THEN 3 ELSE IF strategy = 2 THEN 3 ELSE 0

\* the strategy after a failed one, 0 for none: the second only if the raw
\* title contains " - "
StrategyAfter(strategy, title) ==
    IF strategy = 1
    THEN IF Contains(title, <<" ", "-", " ">>) THEN 2 ELSE 3
    ELSE IF strategy = 2 THEN 3 ELSE 0

\* one strategy of fetchLyrics: the call, then return on success, or go on
TryStrategy ==
    /\ lrc.pc = "fetchLyrics"
    /\ \E answer \in FetchAnswers :
          LET l == [lrc EXCEPT
                      !.calls = Append(@, StrategyCall(lrc.strategy, lrc.title, FetchArtist)),
                      !.answers = Append(@, answer)]
          IN  lrc' =
                IF answer.ok
                THEN [l EXCEPT !.pc = "fetched", !.lyrics = answer.lyrics, !.err = "nil"]
                ELSE IF StrategyAfter(lrc.strategy, lrc.title) # 0
                     THEN [l EXCEPT !.strategy = StrategyAfter(lrc.strategy, lrc.title)]
                     ELSE [l EXCEPT !.pc = "fetched", !.lyrics = "nil",
                                    !.err = "lyrics not found"]
    /\ UNCHANGED <<uiVars, resolver, seek, synced>>

InitFetch ==
    /\ InitUI([search |-> SearchPayloads, album |-> AlbumPayloads])
    /\ \E title \in FetchTitles :
          lrc = [pc |-> "fetchLyrics", title |-> title, strategy |-> 1,
                 calls |-> <<>>, answers |-> <<>>, lyrics |-> "nil", err |-> "nil"]
    /\ resolver = Off /\ seek = Off /\ synced = Off

SpecFetch == InitFetch /\ [][TryStrategy]_vars

\* the calls fetchLyrics is to make when every one of them fails: the
\* search with the cleaned artist and title, the search with the split
\* values if the raw title contains " - ", the exact get without duration
FetchOrder(title) ==
    LET dash == \E i \in 1..(Len(title) - 2) :
                    title[i] = " " /\ title[i + 1] = "-" /\ title[i + 2] = " "
    IN  <<"search">> \o (IF dash THEN <<"search split">> ELSE <<>>) \o <<"get">>

\* C19: fetchLyrics tries its strategies in the fixed order search, search
\* with the split values (only if the raw title contains " - "), exact get
\* without a duration hint; it returns the answer of the first strategy that
\* succeeds and calls no strategy after a success; if every strategy it
\* tried failed, for any reason, it returns the one not-found error.
C19_StrategiesInOrder ==
    lrc.pc \in {"fetchLyrics", "fetched"}
        => LET n == Len(lrc.calls)
               order == FetchOrder(lrc.title)
               kind(c) == IF c.fn = "tryFetch" THEN "get"
                          ELSE IF c.args[1] = cleanArtist(FetchArtist) \o <<" ">>
                                                \o cleanString(lrc.title)
                               THEN "search" ELSE "search split"
           IN  /\ n <= Len(order)
               /\ \A i \in 1..n : kind(lrc.calls[i]) = order[i]
               /\ \A i \in 1..n : lrc.calls[i].fn = "tryFetch" => lrc.calls[i].args[3] = 0
               /\ \A i \in 1..(n - 1) : ~lrc.answers[i].ok
               /\ lrc.pc = "fetched"
                    => /\ n >= 1
                       /\ lrc.answers[n].ok
                            => lrc.lyrics = lrc.answers[n].lyrics /\ lrc.err = "nil"
                       /\ ~lrc.answers[n].ok
                            => /\ n = Len(order)
                               /\ lrc.lyrics = "nil"
                               /\ lrc.err = "lyrics not found"

\* the title has " - ": the first search failed on the transport, the search
\* with the split values succeeded, and the get was not called
C19_Witness ==
    /\ lrc.pc = "fetched"
    /\ lrc.title = <<"x", " ", "-", " ", "y">>
    /\ Len(lrc.calls) = 2
    /\ lrc.calls[2] = [fn |-> "trySearch", args |-> << <<"x", " ", "y">> >>]
    /\ lrc.answers = << [ok |-> FALSE, lyrics |-> "transport"],
                        [ok |-> TRUE, lyrics |-> "B"] >>
    /\ lrc.lyrics = "B"

(***************************************************************************)
(* The download goroutines: runDownloadConvert and runDownloadAlbum, each  *)
(* Send with the handler of Update that receives it.  In resolver, sent is *)
(* the messages sent so far, ui is m.state, i the loop variable counted    *)
(* from 1, progress the chunks downloadFile has read, and created says     *)
(* that os.MkdirAll made the album directory.                              *)
(***************************************************************************)
\* the chunks of a file
MaxProgress == 2

\* the tracks of an album
MaxAlbumTracks == 2

\* m.selected.id of a call of runDownloadConvert, for any track
DownloadIDs == {SongA.id, SongB.id, SongShort.id, SongEmpty.id}

\* the identifiers of m.albumTracks of a call of runDownloadAlbum, for any
\* tracks
AlbumTrackIDs ==
    UNION { [1..n -> {SongA.id, SongShort.id}] : n \in 0..MaxAlbumTracks }

\* m.state after Update handled the message: case errMsg, case convertMsg,
\* case doneMsg; metadataFetchedMsg, downloadProgressMsg and
\* albumTrackProgressMsg leave it
Handled(ui, msg) ==
    CASE msg = "errMsg" -> "stateError"
      [] msg = "convertMsg" -> "stateConverting"
      [] msg = "doneMsg" -> "stateFinished"
      [] OTHER -> ui

\* m.program.Send(msg)
Sent(r, msg) == [r EXCEPT !.sent = Append(@, msg), !.ui = Handled(@, msg)]

\* m.program.Send(errMsg(...)); return
Failed(r) == [Sent(r, "errMsg") EXCEPT !.pc = "returned"]

\* a conversion that reports the failure of ffmpeg and goes on
Converted_NoReturn(r) ==
    Sent(Sent([r EXCEPT !.pc = "returned"], "errMsg"), "doneMsg")

\* cmd.Run() failed in runDownloadConvert: Send(errMsg); return
ConvertFailed(r) == Failed(r)

\* go m.runDownloadConvert()
runDownloadConvert ==
    /\ resolver.pc \in {"validate", "getVideo", "formats", "downloadFile", "ffmpeg"}
    /\ \/ /\ resolver.pc = "validate"
          /\ resolver' = IF InvalidTrackID(resolver.id) THEN Failed(resolver)
                         ELSE [resolver EXCEPT !.pc = "getVideo"]
       \/ /\ resolver.pc = "getVideo"
          /\ \/ resolver' = Failed(resolver)
             \/ resolver' = [Sent(resolver, "metadataFetchedMsg") EXCEPT
                                !.pc = "formats"]
       \/ /\ resolver.pc = "formats"
          /\ \/ resolver' = Failed(resolver)
             \/ resolver' = [resolver EXCEPT !.pc = "downloadFile"]
       \/ /\ resolver.pc = "downloadFile"
          /\ \/ /\ resolver.progress < MaxProgress
                /\ resolver' = [Sent(resolver, "downloadProgressMsg") EXCEPT
                                   !.progress = @ + 1]
             \/ resolver' = Failed(resolver)
             \/ resolver' = [Sent(resolver, "convertMsg") EXCEPT !.pc = "ffmpeg"]
       \/ /\ resolver.pc = "ffmpeg"
          /\ \/ resolver' = ConvertFailed(resolver)
             \/ resolver' = [Sent(resolver, "doneMsg") EXCEPT !.pc = "returned"]
    /\ UNCHANGED <<uiVars, seek, synced, lrc>>

\* continue: the next track of the loop
Continue(r) == [r EXCEPT !.pc = "track", !.i = @ + 1, !.progress = 0]

\* a loop that gives the album up on a track that fails
Skipped_Aborts(r) == Failed(r)

\* a track whose lookup, download or conversion failed: continue
Skipped(r) == Continue(r)

\* go m.runDownloadAlbum()
runDownloadAlbum ==
    /\ resolver.pc \in {"album", "mkdir", "track", "albumGetVideo",
                        "albumDownloadFile", "albumFfmpeg"}
    /\ \/ /\ resolver.pc = "album"
          /\ resolver' = IF Len(resolver.tracks) = 0 THEN Failed(resolver)
                         ELSE [resolver EXCEPT !.pc = "mkdir"]
       \/ /\ resolver.pc = "mkdir"
          /\ \/ resolver' = Failed(resolver)
             \/ resolver' = [resolver EXCEPT !.pc = "track", !.i = 1,
                                             !.created = TRUE]
       \/ /\ resolver.pc = "track"
          /\ resolver' =
                IF resolver.i > Len(resolver.tracks)
                THEN [Sent(resolver, "doneMsg") EXCEPT !.pc = "returned"]
                ELSE IF InvalidTrackID(resolver.tracks[resolver.i])
                     THEN Continue(resolver)
                     ELSE [Sent(resolver, "albumTrackProgressMsg") EXCEPT
                              !.pc = "albumGetVideo"]
       \/ /\ resolver.pc = "albumGetVideo"
          /\ \/ resolver' = Skipped(resolver)
             \/ resolver' = [resolver EXCEPT !.pc = "albumDownloadFile"]
       \/ /\ resolver.pc = "albumDownloadFile"
          /\ \/ /\ resolver.progress < MaxProgress
                /\ resolver' = [Sent(resolver, "downloadProgressMsg") EXCEPT
                                   !.progress = @ + 1]
             \/ resolver' = Skipped(resolver)
             \/ resolver' = [resolver EXCEPT !.pc = "albumFfmpeg"]
       \/ /\ resolver.pc = "albumFfmpeg"
          /\ \/ resolver' = Skipped(resolver)
             \/ resolver' = Continue(resolver)
    /\ UNCHANGED <<uiVars, seek, synced, lrc>>

\* case "ctrl+c", and case "q" in the states of a download: tea.Quit, the
\* process and its goroutine are gone
DownloadQuit ==
    /\ resolver.pc \in {"validate", "getVideo", "formats", "downloadFile",
                        "ffmpeg", "album", "mkdir", "track", "albumGetVideo",
                        "albumDownloadFile", "albumFfmpeg"}
    /\ resolver.ui \in {"stateDownloading", "stateDownloadingAlbum",
                       "stateConverting"}
    /\ resolver' = [resolver EXCEPT !.pc = "killed", !.ui = "quit"]
    /\ UNCHANGED <<uiVars, seek, synced, lrc>>

\* case "enter" on a track (m.state = stateDownloading; go
\* m.runDownloadConvert()) or on an album header (m.state =
\* stateDownloadingAlbum; go m.runDownloadAlbum())
InitDownload ==
    /\ InitUI([search |-> SearchPayloads, album |-> AlbumPayloads])
    /\ \/ \E id \in DownloadIDs :
             resolver = [pc |-> "validate", kind |-> "single", id |-> id,
                         tracks |-> <<>>, i |-> 0,
                         progress |-> 0, created |-> FALSE,
                         sent |-> <<>>, ui |-> "stateDownloading"]
       \/ \E tracks \in AlbumTrackIDs :
             resolver = [pc |-> "album", kind |-> "album", id |-> <<>>,
                         tracks |-> tracks, i |-> 0,
                         progress |-> 0, created |-> FALSE,
                         sent |-> <<>>, ui |-> "stateDownloadingAlbum"]
    /\ seek = Off /\ synced = Off /\ lrc = Off

NextDownload == runDownloadConvert \/ runDownloadAlbum \/ DownloadQuit

SpecDownload == InitDownload /\ [][NextDownload]_vars

\* the scheduler runs the goroutine, and its calls return
SpecDownloadLive ==
    SpecDownload /\ WF_vars(runDownloadConvert) /\ WF_vars(runDownloadAlbum)

\* the place of a message in the order of a single-track download
Rank(msg) ==
    CASE msg = "metadataFetchedMsg" -> 1
      [] msg = "downloadProgressMsg" -> 2
      [] msg = "convertMsg" -> 3
      [] OTHER -> 4

\* how many of the messages sent are msg
CountSent(msg) ==
    Cardinality({ k \in 1..Len(resolver.sent) : resolver.sent[k] = msg })

\* C38: a single-track download sends metadataFetchedMsg, downloadProgressMsg
\* any number of times, convertMsg and doneMsg in this order, with at most
\* one doneMsg or errMsg, which is its last message; the UI is in Finished
\* only after convertMsg was handled, and after an errMsg the download
\* changes the UI state no more.
C38_DownloadMessageOrder ==
    resolver.pc # "off" /\ resolver.kind = "single"
        => LET sent == resolver.sent IN
           /\ \A j, k \in 1..Len(sent) :
                 j < k => /\ Rank(sent[j]) <= Rank(sent[k])
                          /\ Rank(sent[j]) = Rank(sent[k])
                                => sent[j] = "downloadProgressMsg"
                          /\ sent[j] \notin {"doneMsg", "errMsg"}
           /\ CountSent("doneMsg") + CountSent("errMsg") <= 1
           /\ CountSent("doneMsg") = 1 => CountSent("convertMsg") = 1
           /\ CountSent("metadataFetchedMsg") <= 1
           /\ resolver.ui = "stateFinished"
                 => CountSent("convertMsg") = 1 /\ sent[Len(sent)] = "doneMsg"
           /\ CountSent("errMsg") = 1
                 => resolver.ui = "stateError" /\ resolver.pc = "returned"

\* a download that sent every kind of message and finished
C38_Witness ==
    /\ resolver.pc = "returned"
    /\ resolver.sent = <<"metadataFetchedMsg", "downloadProgressMsg",
                         "downloadProgressMsg", "convertMsg", "doneMsg">>
    /\ resolver.ui = "stateFinished"

\* C39: once the album directory was created for a non-empty track list,
\* runDownloadAlbum terminates (unless the user quits), with exactly one
\* doneMsg and no errMsg sent, after the loop went over every track: a track
\* that is invalid or fails is skipped.
C39_AlbumDownloadCompletes ==
    /\ (resolver.pc # "off" /\ resolver.created)
          ~> (resolver.pc \in {"returned", "killed"})
    /\ [](resolver.pc = "returned" /\ resolver.created
            => /\ CountSent("doneMsg") = 1
               /\ CountSent("errMsg") = 0
               /\ resolver.sent[Len(resolver.sent)] = "doneMsg"
               /\ resolver.i = Len(resolver.tracks) + 1
               /\ resolver.ui = "stateFinished")
    /\ [](resolver.pc # "off" /\ resolver.created
            => CountSent("errMsg") = 0 /\ resolver.ui # "stateError")

\* an album of an invalid track and a track whose download failed after a
\* chunk: both were skipped and the doneMsg was sent
C39_Witness ==
    /\ resolver.pc = "returned" /\ resolver.created
    /\ resolver.tracks = <<SongShort.id, SongA.id>>
    /\ resolver.sent = <<"albumTrackProgressMsg", "downloadProgressMsg", "doneMsg">>
    /\ resolver.ui = "stateFinished"

====
